---- MODULE Spec2Model ----
(***************************************************************************)
(* A model of the Onyx MCP documentation crawler (OnyxDocsCrawler) and of  *)
(* the SearchEngine that answers queries over the crawled corpus.          *)
(*                                                                         *)
(* A URL string is modelled by the parts the WHATWG URL parser splits it   *)
(* into: scheme, host, the non-empty path segments, the number of '/'      *)
(* characters that trail the last segment, the query as a sequence of      *)
(* <<key, value>> pairs in textual order, and the fragment.  Keys and      *)
(* values are small naturals whose order stands for the code-unit order    *)
(* Array.sort uses.                                                        *)
(***************************************************************************)
EXTENDS Naturals, Integers, Sequences, FiniteSets, TLC

VARIABLES
    \* ---- OnyxDocsCrawler ------------------------------------------------
    visited,            \* this.visited: set of URLs
    docs,               \* this.docs: sequence of Documents
    linkQueue,          \* this.linkQueue: the frontier, a FIFO sequence of URLs
    forceRecrawl,       \* this.forceRecrawl
    baseUrls,           \* this.baseUrls
    pc,                 \* position of crawl(): "idle", "running", "done"
    processedCount,     \* processQueue local
    consecutiveErrors,  \* processQueue local
    tripped,            \* the break of processQueue was taken
    startUrls,          \* the argument of crawl()
    disk,               \* data/onyx-docs.json and data/crawl-stats.json
    today,              \* the day new Date() falls on
    fetchLog,           \* every request sent by axiosInstance.get, in order
    runs,               \* number of crawler processes started so far
    diskAtStart,        \* the persisted files as crawl() found them
    hostUp,             \* whether docs.onyxlang.io answers requests
    flips,              \* number of times the host went down or came back
    crawledSeeds,       \* the start URLs this run put in its frontier
    prevCrawl,          \* the start URLs and the day of the last run that crawled
    \* ---- normalizeUrl applied to a pair of inputs -----------------------
    nA, nB, oA, oB, nDone,
    \* ---- findDocLinks applied to one page -------------------------------
    lPage, lHrefs, lLinks, lDone,
    \* ---- SearchEngine --------------------------------------------------
    store,              \* the files of dataDir the engine reads
    cache,              \* this.cache
    sQuery,             \* the query argument of the calls
    sLimit,             \* the limit argument of the calls
    sOut,               \* what the last call returned
    sCalls,             \* number of calls made so far
    reads,              \* per corpus, the number of fs.readFile attempts of loadData
    failed,             \* the corpora for which a load has failed
    sStale,             \* the last call used a cached corpus whose file had changed
    \* ---- SharedMcpImplementation (tools) and McpHttpBridge ----------------
    fs,                 \* the files outside the corpora: path -> content
    inv,                \* the child process and timer of the last code tool call
    clock,              \* seconds the pending call has waited for its child
    tOut,               \* what the last executeTool / bridge call produced
    \* ---- GitHubCrawler: parseGitHubUrls and determineFileType ------------
    gUrl,               \* the text given to parseGitHubUrls, with its parts
    gRepos,             \* the repositories parseGitHubUrls returns
    gPath,              \* the path given to determineFileType
    gType,              \* the file type it returns ("" before the call)
    \* ---- GitHubCrawler: crawlAllRepositories -------------------------------
    wRefs,              \* the references parseGitHubUrls returned, each with
                        \* what its metadata lookup will answer
    wLimit,             \* repoLimit
    wOptions,           \* the options the crawler was constructed with
    wRepos,             \* repositories, as getRepositoriesFromUrls returned it
    wNext,              \* index in wRepos of the next repository to crawl
    wBlobs,             \* the git/blobs requests made, in order
    wFiles,             \* allFiles
    wpc,                \* "idle", "crawling", "done"
    \* ---- GitHubCrawler: the tree filter of crawlRepository ------------------
    fItem,              \* an item of tree.tree: its type and the parts of its path
    fKept,              \* what the filter callback returned ("" before the call)
    \* ---- run_onyx_code invocations in flight at the same time ---------------
    rCalls,             \* per invocation: its arguments, its position, what ran
    rTemp               \* the files of data/temp: path -> content

crawlVars == <<visited, docs, linkQueue, forceRecrawl, baseUrls, pc,
               processedCount, consecutiveErrors, tripped, startUrls, disk,
               today, fetchLog, runs, diskAtStart, hostUp, flips,
               crawledSeeds, prevCrawl>>
normVars == <<nA, nB, oA, oB, nDone>>
linkVars == <<lPage, lHrefs, lLinks, lDone>>
searchVars == <<store, cache, sQuery, sLimit, sOut, sCalls, reads, failed, sStale>>
toolVars == <<fs, inv, clock, tOut>>
ghVars == <<gUrl, gRepos, gPath, gType>>
walkVars == <<wRefs, wLimit, wOptions, wRepos, wNext, wBlobs, wFiles, wpc>>
filterVars == <<fItem, fKept>>
overlapVars == <<rCalls, rTemp>>

-----------------------------------------------------------------------------
(* URLs *)

DocsHost == "docs.onyxlang.io"

\* The result of normalizeUrl's catch branch (null).
NullUrl == [kind |-> "null", scheme |-> "", host |-> "", segs |-> <<>>,
            slashes |-> 0, query |-> <<>>, frag |-> ""]

\* A string new URL() rejects.
BadUrl == [kind |-> "bad", scheme |-> "", host |-> "", segs |-> <<>>,
           slashes |-> 0, query |-> <<>>, frag |-> ""]

Url(sc, h, s, n, q, f) == [kind |-> "url", scheme |-> sc, host |-> h, segs |-> s,
                           slashes |-> n, query |-> q, frag |-> f]

\* https://docs.onyxlang.io/<segments>, no query, no fragment.
DocUrl(s, n) == Url("https", DocsHost, s, n, <<>>, "")

\* The keys of a query in textual order (URLSearchParams.keys()).
RECURSIVE Keys(_)
Keys(q) == IF q = <<>> THEN <<>> ELSE <<Head(q)[1]>> \o Keys(Tail(q))

\* URLSearchParams.get(key): the value of the first pair with that key.
RECURSIVE Get(_, _)
Get(q, k) == IF Head(q)[1] = k THEN Head(q)[2] ELSE Get(Tail(q), k)

\* URLSearchParams.set(key, value): replaces the first pair with that key and
\* drops the others, or appends a new pair.
RECURSIVE DropKey(_, _)
DropKey(q, k) ==
    IF q = <<>> THEN <<>>
    ELSE IF Head(q)[1] = k THEN DropKey(Tail(q), k)
    ELSE <<Head(q)>> \o DropKey(Tail(q), k)

RECURSIVE SetParam(_, _, _)
SetParam(q, k, v) ==
    IF q = <<>> THEN <<<<k, v>>>>
    ELSE IF Head(q)[1] = k THEN <<<<k, v>>>> \o DropKey(Tail(q), k)
    ELSE <<Head(q)>> \o SetParam(Tail(q), k, v)

\* Array.prototype.sort() on the keys: insertion into a sorted sequence.
RECURSIVE Insert(_, _)
Insert(s, k) ==
    IF s = <<>> THEN <<k>>
    ELSE IF k < Head(s) THEN <<k>> \o s
    ELSE <<Head(s)>> \o Insert(Tail(s), k)

RECURSIVE Sort(_)
Sort(s) == IF s = <<>> THEN <<>> ELSE Insert(Sort(Tail(s)), Head(s))

\* [...params.keys()].sort().forEach(key => sortedParams.set(key, params.get(key)))
RECURSIVE SetAll(_, _, _)
SetAll(acc, ks, q) ==
    IF ks = <<>> THEN acc
    ELSE SetAll(SetParam(acc, Head(ks), Get(q, Head(ks))), Tail(ks), q)

SortedParams(q) == SetAll(<<>>, Sort(Keys(q)), q)

\* "if (pathname !== '/' && pathname.endsWith('/')) pathname = pathname.slice(0, -1)":
\* one trailing slash is removed.
TrimSlash(n) == IF n > 0 THEN n - 1 ELSE 0

\* normalizeUrl without "urlObj.hash = ''".
normalizeUrlKeepsFragment(u) ==
    IF u.kind # "url" THEN NullUrl
    ELSE Url(u.scheme, u.host, u.segs, TrimSlash(u.slashes),
             SortedParams(u.query), u.frag)

normalizeUrl(u) ==
    IF u.kind # "url" THEN NullUrl
    ELSE Url(u.scheme, u.host, u.segs, TrimSlash(u.slashes),
             SortedParams(u.query), "")

-----------------------------------------------------------------------------
(* Links of a page.  An href attribute is one of                            *)
(*   form "scheme": <scheme>:<opaque>, e.g. mailto:a@b (scheme as written), *)
(*   form "abs":    an absolute URL,                                         *)
(*   form "path":   /<segments>?<query>#<frag>, relative to the host,       *)
(*   form "rel":    <segments>?<query>#<frag>, relative to the directory,   *)
(*   form "frag":   #<frag>,                                                 *)
(*   form "bad":    a string new URL(href, base) rejects,                    *)
(*   form "empty":  the empty string.                                        *)

Href(form, sc, u) == [form |-> form, scheme |-> sc, url |-> u]

\* The URL parser lower-cases the scheme.
LowerScheme(sc) ==
    CASE sc = "MAILTO" -> "mailto"
      [] sc = "JavaScript" -> "javascript"
      [] OTHER -> sc

\* All but the last element of a sequence.
Front(s) == IF s = <<>> THEN <<>> ELSE SubSeq(s, 1, Len(s) - 1)

\* The directory of a page: its path up to and including the last '/'.
DirSegs(cur) == IF cur.slashes > 0 THEN cur.segs ELSE Front(cur.segs)

\* new URL(href, currentUrl) for an href that parses.
Resolve(h, cur) ==
    CASE h.form = "scheme" ->
            Url(LowerScheme(h.scheme), "", <<>>, 0, <<>>, "")
      [] h.form = "abs" -> h.url
      [] h.form = "path" ->
            Url(cur.scheme, cur.host, h.url.segs, h.url.slashes, h.url.query,
                h.url.frag)
      [] h.form = "rel" ->
            Url(cur.scheme, cur.host, DirSegs(cur) \o h.url.segs,
                h.url.slashes, h.url.query, h.url.frag)
      [] OTHER ->
            Url(cur.scheme, cur.host, cur.segs, cur.slashes, cur.query,
                h.url.frag)

\* String.prototype.includes over the atomic host and segment names.
StrIncludes(str, needle) ==
    \/ str = needle
    \/ needle = "github.com" /\ str \in {"api.github.com", "gist.github.com"}
    \/ needle = "favicon" /\ str \in {"favicon.ico", "favicon.png"}

\* href.includes(needle) for a needle without '/'.
HrefIncludes(h, needle) ==
    /\ h.form \in {"abs", "path", "rel"}
    /\ \/ h.form = "abs" /\ StrIncludes(h.url.host, needle)
       \/ \E i \in 1..Len(h.url.segs) : StrIncludes(h.url.segs[i], needle)

\* href.includes('onyxlang.io/playground')
HrefIncludesPlayground(h) ==
    /\ h.form = "abs"
    /\ h.url.host \in {"onyxlang.io", DocsHost}
    /\ Len(h.url.segs) >= 1
    /\ h.url.segs[1] = "playground"

\* pathname.startsWith('/' + prefix + '/')
PathStartsWith(u, prefix) ==
    /\ Len(u.segs) >= 1
    /\ u.segs[1] = prefix
    /\ (Len(u.segs) >= 2 \/ u.slashes >= 1)

\* pathname === '/' + name + '/'
PathIsDir(u, name) == u.segs = <<name>> /\ u.slashes = 1

\* pathname.includes('/print.html')
PathIncludesPrint(u) == \E i \in 1..Len(u.segs) : u.segs[i] = "print.html"

\* pathname.includes('favicon')
PathIncludesFavicon(u) ==
    \E i \in 1..Len(u.segs) : StrIncludes(u.segs[i], "favicon")

\* The first skip of findDocLinks, on the text of the href.
SkippedByText(h) ==
    \/ h.form = "scheme" /\ h.scheme \in {"mailto", "tel", "javascript"}
    \/ HrefIncludes(h, "github.com")
    \/ HrefIncludes(h, "twitter.com")
    \/ HrefIncludesPlayground(h)
    \/ HrefIncludes(h, "webassembly.org")

\* The accept condition of findDocLinks on the resolved URL.
InScope(u) ==
    /\ u.host = DocsHost
    /\ (PathStartsWith(u, "book") \/ PathStartsWith(u, "packages"))
    /\ ~PathIncludesPrint(u)
    /\ ~PathIncludesFavicon(u)
    /\ ~PathIsDir(u, "book")
    /\ ~PathIsDir(u, "packages")

\* Whether one <a href> contributes a link, and which.
LinkAccepted(h, cur) ==
    /\ h.form \notin {"empty", "bad"}
    /\ ~SkippedByText(h)
    /\ Resolve(h, cur).scheme \in {"http", "https"}
    /\ InScope(Resolve(h, cur))
    /\ normalizeUrl(Resolve(h, cur)) # NullUrl

\* Set.add in insertion order.
AddOnce(s, x) == IF \E i \in 1..Len(s) : s[i] = x THEN s ELSE Append(s, x)

\* findDocLinks($, currentUrl): hrefs are the href attributes of the page's
\* <a href> elements in document order; the result is Array.from(links).
RECURSIVE FindFrom(_, _, _)
FindFrom(acc, hrefs, cur) ==
    IF hrefs = <<>> THEN acc
    ELSE FindFrom(IF LinkAccepted(Head(hrefs), cur)
                  THEN AddOnce(acc, normalizeUrl(Resolve(Head(hrefs), cur)))
                  ELSE acc,
                  Tail(hrefs), cur)

findDocLinks(hrefs, cur) == FindFrom(<<>>, hrefs, cur)

-----------------------------------------------------------------------------
(* The documentation site the crawler runs against: for each page the href *)
(* attributes of its <a href> elements in document order, and whether the  *)
(* page has any text left after extractContent's clean-up.                 *)

Book(name) == DocUrl(<<"book", name>>, 0)
Overview == Book("Overview.html")
Core == DocUrl(<<"packages", "core.html">>, 0)

PathHref(s, n, q, f) == Href("path", "", Url("", "", s, n, q, f))
RelHref(s, f) == Href("rel", "", Url("", "", s, 0, <<>>, f))
NoUrl == Url("", "", <<>>, 0, <<>>, "")

OverviewHrefs ==
    << Href("frag", "", Url("", "", <<>>, 0, <<>>, "top")),
       RelHref(<<"intro.html">>, "section"),
       RelHref(<<"gone.html">>, ""),
       PathHref(<<"book", "a">>, 0, <<>>, ""),
       Href("scheme", "mailto", NoUrl),
       PathHref(<<"book", "b">>, 1, <<>>, ""),
       Href("abs", "https", Url("https", "github.com", <<"onyx-lang">>, 0, <<>>, "")),
       PathHref(<<"book", "c">>, 0, <<<<2, 1>>, <<1, 1>>>>, ""),
       PathHref(<<"book", "print.html">>, 0, <<>>, ""),
       PathHref(<<"book", "d">>, 0, <<>>, ""),
       RelHref(<<"intro.html">>, ""),
       PathHref(<<"book", "e">>, 0, <<>>, ""),
       PathHref(<<"book">>, 2, <<>>, "") >>

IntroHrefs ==
    << RelHref(<<"Overview.html">>, ""),
       PathHref(<<"book", "a">>, 3, <<>>, ""),
       PathHref(<<"book", "f">>, 0, <<>>, ""),
       PathHref(<<"packages", "core.html">>, 0, <<>>, "") >>

CoreHrefs ==
    << PathHref(<<"packages", "core.html">>, 0, <<>>, "x"),
       RelHref(<<"json.html">>, ""),
       Href("scheme", "JavaScript", NoUrl) >>

\* The pages the server has; any other path is answered 404.
SitePaths ==
    { <<"book", "Overview.html">>, <<"book", "intro.html">>, <<"book", "a">>,
      <<"book", "b">>, <<"book", "c">>, <<"book", "d">>, <<"book", "e">>,
      <<"book", "f">>, <<"packages", "core.html">>, <<"packages", "json.html">> }

\* A long chapter of the book, one page per section: /book/chain?1=k for k
\* in 1..ChainLen.  Every seventh section is missing (404).  Section k links
\* to section k+1, to section k+1 again with trailing slashes, and to
\* section k+2.
ChainLen == 600

Chain(k) == Url("https", DocsHost, <<"book", "chain">>, 0, <<<<1, k>>>>, "")

IsChain(u) ==
    /\ u.segs = <<"book", "chain">>
    /\ Len(u.query) = 1
    /\ u.query[1][1] = 1

ChainHrefs(k) ==
    << PathHref(<<"book", "chain">>, 0, <<<<1, k + 1>>>>, ""),
       PathHref(<<"book", "chain">>, 3, <<<<1, k + 1>>>>, ""),
       PathHref(<<"book", "chain">>, 0, <<<<1, k + 2>>>>, "") >>

PageExists(u) ==
    /\ u.host = DocsHost
    /\ \/ u.segs \in SitePaths
       \/ /\ IsChain(u)
          /\ u.query[1][2] \in 1..ChainLen
          /\ u.query[1][2] % 7 # 0

PageHrefs(u) ==
    CASE u.segs = <<"book", "Overview.html">> -> OverviewHrefs
      [] u.segs = <<"book", "intro.html">> -> IntroHrefs
      [] u.segs = <<"packages", "core.html">> -> CoreHrefs
      [] IsChain(u) -> ChainHrefs(u.query[1][2])
      [] OTHER -> <<>>

\* The positions in PageHrefs(u) of the <a> elements that lie inside an
\* element extractContent removes: on Overview.html "#top" and
\* "intro.html#section" in the .toc and "/book/e" in the <nav>, on intro.html
\* "/book/f" in the <footer>, on core.html "json.html" in the #sidebar.
PageBoilerplate(u) ==
    CASE u.segs = <<"book", "Overview.html">> -> {1, 2, 12}
      [] u.segs = <<"book", "intro.html">> -> {3}
      [] u.segs = <<"packages", "core.html">> -> {2}
      [] OTHER -> {}

\* The <a href> elements left in $ after
\* "$('footer, .navigation, .toc, script, style, nav').remove()" and
\* "content.find('#sidebar, .sidebar, nav').remove()".
RECURSIVE CleanedFrom(_, _, _)
CleanedFrom(hrefs, strip, i) ==
    IF i > Len(hrefs) THEN <<>>
    ELSE IF i \in strip THEN CleanedFrom(hrefs, strip, i + 1)
    ELSE <<hrefs[i]>> \o CleanedFrom(hrefs, strip, i + 1)

Cleaned(hrefs, strip) == CleanedFrom(hrefs, strip, 1)

\* A mutant of LinksOfPage: findDocLinks is called after extractContent.
LinksOfPageAfterCleanup(u) ==
    findDocLinks(Cleaned(PageHrefs(u), PageBoilerplate(u)), u)

\* "const links = this.findDocLinks($, url)" of crawlPage, on the document as
\* cheerio loaded it: extractContent is called after it.
LinksOfPage(u) == findDocLinks(PageHrefs(u), u)

\* doc.content.trim() of the page is empty.
PageEmpty(u) == u.segs = <<"book", "d">>

-----------------------------------------------------------------------------
(* OnyxDocsCrawler *)

MAX_PAGES == 500
RECRAWL_THRESHOLD_DAYS == 7
maxConsecutiveErrors == 5

\* Bounds of the model.
MaxRuns == 2
MaxFlips == 2

BASE_URLS == <<Overview, Core>>

\* The start URLs a run may be given on the command line (null: BASE_URLS).
SeedChoices ==
    { BASE_URLS,
      <<Overview>>,
      <<DocUrl(<<"packages", "core.html">>, 2)>>,
      <<Overview, Url("https", DocsHost, <<"book", "Overview.html">>, 0, <<>>, "top")>>,
      <<BadUrl, Core>> }

NoDisk == [present |-> FALSE, docs |-> <<>>,
           stats |-> [totalDocs |-> 0, urlsCrawled |-> 0, crawlDate |-> 0,
                      baseUrls |-> <<>>]]

\* s.filter(x => P(x)) for P(x) == x \notin drop
RECURSIVE FilterOut(_, _)
FilterOut(s, drop) ==
    IF s = <<>> THEN <<>>
    ELSE IF Head(s) \in drop THEN FilterOut(Tail(s), drop)
    ELSE <<Head(s)>> \o FilterOut(Tail(s), drop)

\* urls.map(url => this.normalizeUrl(url)).filter(Boolean)
RECURSIVE NormalizeAll(_)
NormalizeAll(urls) ==
    IF urls = <<>> THEN <<>>
    ELSE IF normalizeUrl(Head(urls)) = NullUrl THEN NormalizeAll(Tail(urls))
    ELSE <<normalizeUrl(Head(urls))>> \o NormalizeAll(Tail(urls))

Range(s) == {s[i] : i \in 1..Len(s)}

\* checkRecentCrawls(urls): the urls of the entries of recentlyCrawled.
checkRecentCrawls(urls, d, now) ==
    IF ~d.present THEN {}
    ELSE IF now - d.stats.crawlDate < RECRAWL_THRESHOLD_DAYS
    THEN { u \in Range(urls) :
             \E i \in 1..Len(d.stats.baseUrls) :
                normalizeUrl(d.stats.baseUrls[i]) = normalizeUrl(u) }
    ELSE {}

\* saveDocs(): onyx-docs.json and crawl-stats.json as written.
saveDocs(ds, vis, base, now) ==
    [present |-> TRUE, docs |-> ds,
     stats |-> [totalDocs |-> Len(ds), urlsCrawled |-> Cardinality(vis),
                crawlDate |-> now, baseUrls |-> base]]

\* The state a new OnyxDocsCrawler is constructed in.
Constructed ==
    /\ visited = {}
    /\ docs = <<>>
    /\ linkQueue = <<>>
    /\ baseUrls = <<>>
    /\ pc = "idle"
    /\ processedCount = 0
    /\ consecutiveErrors = 0
    /\ tripped = FALSE
    /\ fetchLog = <<>>

CrawlInit ==
    /\ Constructed
    /\ forceRecrawl \in BOOLEAN
    /\ startUrls \in SeedChoices
    /\ disk = NoDisk
    /\ diskAtStart = NoDisk
    /\ today = 0
    /\ runs = 1
    /\ hostUp = TRUE
    /\ flips = 0
    /\ crawledSeeds = {}
    /\ prevCrawl = [any |-> FALSE, seeds |-> {}, day |-> 0]

\* The seeds crawl() goes on with: lines 82-107.
SeedsToCrawl(urls, force, d, now) ==
    IF checkRecentCrawls(urls, d, now) # {} /\ ~force
    THEN NormalizeAll(FilterOut(urls, checkRecentCrawls(urls, d, now)))
    ELSE NormalizeAll(urls)

\* crawl() takes the early return of line 96 ("Nothing to do").
AllRecent(urls, force, d, now) ==
    /\ checkRecentCrawls(urls, d, now) # {}
    /\ ~force
    /\ FilterOut(urls, checkRecentCrawls(urls, d, now)) = <<>>

\* The start URLs whose normal form is in the sequence base.
SeedsOf(urls, base) ==
    { u \in Range(urls) : normalizeUrl(u) # NullUrl /\ normalizeUrl(u) \in Range(base) }

\* crawl(startUrls) up to the first fetch of processQueue.
Start ==
    /\ pc = "idle"
    /\ IF AllRecent(startUrls, forceRecrawl, disk, today)
       THEN /\ pc' = "done"
            /\ UNCHANGED <<baseUrls, linkQueue, crawledSeeds>>
       ELSE /\ baseUrls' = SeedsToCrawl(startUrls, forceRecrawl, disk, today)
            /\ IF baseUrls' = <<>>
               THEN pc' = "done" /\ UNCHANGED <<linkQueue, crawledSeeds>>
               ELSE /\ pc' = "running"
                    /\ linkQueue' = linkQueue \o baseUrls'
                    /\ crawledSeeds' =
                          IF checkRecentCrawls(startUrls, disk, today) # {}
                             /\ ~forceRecrawl
                          THEN SeedsOf(FilterOut(startUrls,
                                   checkRecentCrawls(startUrls, disk, today)),
                                   baseUrls')
                          ELSE SeedsOf(startUrls, baseUrls')
    /\ UNCHANGED <<visited, docs, forceRecrawl, processedCount,
                   consecutiveErrors, tripped, startUrls, disk, today,
                   fetchLog, runs, diskAtStart, hostUp, flips, prevCrawl>>

\* A mutant of AlreadyVisited: the visited check of processQueue is missing.
AlreadyVisitedNever(n, vis) == FALSE

\* "if (this.visited.has(normalizedUrl)) continue": processQueue, line 147.
AlreadyVisited(n, vis) == n \in vis

\* A mutant of MarkVisited: the page is not recorded.
MarkVisitedNot(vis, n) == vis

\* "this.visited.add(url)": crawlPage, line 186, before the fetch.
MarkVisited(vis, n) == vis \cup {n}

\* A mutant of BreakerTrips: > for >=.
BreakerTripsLate(errors) == errors > maxConsecutiveErrors

\* "if (consecutiveErrors >= maxConsecutiveErrors) break": line 163.
BreakerTrips(errors) == errors >= maxConsecutiveErrors

\* A mutant of CanEnqueue: only the queue is consulted.
CanEnqueueIgnoringVisited(link, vis, q) ==
    /\ link # NullUrl
    /\ link \notin Range(q)

\* The condition of crawlPage, lines 210-212, on a normalized link.
CanEnqueue(link, vis, q) ==
    /\ link # NullUrl
    /\ link \notin vis
    /\ link \notin Range(q)

\* "for (const link of links) ...": crawlPage, lines 208-217.
RECURSIVE Enqueue(_, _, _)
Enqueue(q, links, vis) ==
    IF links = <<>> THEN q
    ELSE Enqueue(IF CanEnqueue(normalizeUrl(Head(links)), vis, q)
                 THEN Append(q, normalizeUrl(Head(links)))
                 ELSE q,
                 Tail(links), vis)

\* The Document extractContent returns for a page.
Document(n) == [url |-> n]

\* A mutant of LoopEnds: the loop runs while processedCount < MAX_PAGES - 1.
LoopEndsOnePageEarly(q, count, trip) ==
    q = <<>> \/ count >= MAX_PAGES - 1 \/ trip

\* A mutant of LoopEnds: the loop runs while processedCount <= MAX_PAGES.
LoopEndsOnePageLate(q, count, trip) ==
    q = <<>> \/ count > MAX_PAGES \/ trip

\* The while condition of processQueue is false, or the break was taken.
LoopEnds(q, count, trip) == q = <<>> \/ count >= MAX_PAGES \/ trip

\* A mutant of EndOfRun: an aborted run saves nothing.
EndOfRunDropsAborted(q, count, trip, ds, vis) ==
    IF LoopEnds(q, count, trip)
    THEN /\ pc' = "done"
         /\ disk' = IF trip THEN disk ELSE saveDocs(ds, vis, baseUrls, today)
    ELSE UNCHANGED <<pc, disk>>

\* What follows an iteration of processQueue: the next iteration, or the end
\* of the loop and "await this.saveDocs()" (crawl, line 127).
EndOfRun(q, count, trip, ds, vis) ==
    IF LoopEnds(q, count, trip)
    THEN /\ pc' = "done"
         /\ disk' = saveDocs(ds, vis, baseUrls, today)
    ELSE UNCHANGED <<pc, disk>>

\* The URL processQueue dequeues, normalized (lines 139-140).
Dequeued == normalizeUrl(Head(linkQueue))

\* A mutant of StepSkip: "continue" is reached without the shift of line 139.
StepSkipKeepsUrl ==
    /\ pc = "running"
    /\ Dequeued = NullUrl \/ AlreadyVisited(Dequeued, visited)
    /\ UNCHANGED crawlVars

\* An iteration of processQueue that ends in "continue" (lines 142-150).
StepSkip ==
    /\ pc = "running"
    /\ Dequeued = NullUrl \/ AlreadyVisited(Dequeued, visited)
    /\ linkQueue' = Tail(linkQueue)
    /\ EndOfRun(linkQueue', processedCount, tripped, docs, visited)
    /\ UNCHANGED <<visited, docs, forceRecrawl, baseUrls, processedCount,
                   consecutiveErrors, tripped, startUrls, today, fetchLog,
                   runs, diskAtStart, hostUp, flips, crawledSeeds, prevCrawl>>

\* A mutant of StepFetchFail: the first failed request ends the run.
StepFetchFailAborts ==
    /\ pc = "running"
    /\ Dequeued # NullUrl /\ ~AlreadyVisited(Dequeued, visited)
    /\ ~hostUp \/ ~PageExists(Dequeued)
    /\ linkQueue' = Tail(linkQueue)
    /\ visited' = MarkVisited(visited, Dequeued)
    /\ fetchLog' = Append(fetchLog, [url |-> Dequeued, ok |-> FALSE])
    /\ consecutiveErrors' = consecutiveErrors + 1
    /\ tripped' = BreakerTrips(consecutiveErrors')
    /\ pc' = "done"
    /\ disk' = saveDocs(docs, visited', baseUrls, today)
    /\ UNCHANGED <<docs, forceRecrawl, baseUrls, processedCount, startUrls,
                   today, runs, diskAtStart, hostUp, flips, crawledSeeds,
                   prevCrawl>>

\* An iteration whose crawlPage throws: the request fails (lines 159-167).
StepFetchFail ==
    /\ pc = "running"
    /\ Dequeued # NullUrl /\ ~AlreadyVisited(Dequeued, visited)
    /\ ~hostUp \/ ~PageExists(Dequeued)
    /\ linkQueue' = Tail(linkQueue)
    /\ visited' = MarkVisited(visited, Dequeued)
    /\ fetchLog' = Append(fetchLog, [url |-> Dequeued, ok |-> FALSE])
    /\ consecutiveErrors' = consecutiveErrors + 1
    /\ tripped' = BreakerTrips(consecutiveErrors')
    /\ EndOfRun(linkQueue', processedCount, tripped', docs, visited')
    /\ UNCHANGED <<docs, forceRecrawl, baseUrls, processedCount, startUrls,
                   today, runs, diskAtStart, hostUp, flips, crawledSeeds,
                   prevCrawl>>

\* An iteration whose crawlPage returns (lines 156-158, 180-220).
StepFetchOk ==
    /\ pc = "running"
    /\ Dequeued # NullUrl /\ ~AlreadyVisited(Dequeued, visited)
    /\ hostUp /\ PageExists(Dequeued)
    /\ visited' = MarkVisited(visited, Dequeued)
    /\ fetchLog' = Append(fetchLog, [url |-> Dequeued, ok |-> TRUE])
    /\ docs' = IF PageEmpty(Dequeued) THEN docs
               ELSE Append(docs, Document(Dequeued))
    /\ linkQueue' = Enqueue(Tail(linkQueue), LinksOfPage(Dequeued),
                            MarkVisited(visited, Dequeued))
    /\ consecutiveErrors' = 0
    /\ processedCount' = processedCount + 1
    /\ EndOfRun(linkQueue', processedCount', tripped, docs', visited')
    /\ UNCHANGED <<forceRecrawl, baseUrls, tripped, startUrls, today, runs,
                   diskAtStart, hostUp, flips, crawledSeeds, prevCrawl>>

\* The host goes down or comes back while a crawl is running.
Flip ==
    /\ pc = "running"
    /\ flips < MaxFlips
    /\ hostUp' = ~hostUp
    /\ flips' = flips + 1
    /\ UNCHANGED <<visited, docs, linkQueue, forceRecrawl, baseUrls, pc,
                   processedCount, consecutiveErrors, tripped, startUrls,
                   disk, today, fetchLog, runs, diskAtStart, crawledSeeds,
                   prevCrawl>>

\* The crawler is run again, some days later: a new process, a new
\* OnyxDocsCrawler, the files of the data directory as the last run left them.
NewRun ==
    /\ pc = "done"
    /\ runs < MaxRuns
    /\ runs' = runs + 1
    /\ visited' = {}
    /\ docs' = <<>>
    /\ linkQueue' = <<>>
    /\ baseUrls' = <<>>
    /\ pc' = "idle"
    /\ processedCount' = 0
    /\ consecutiveErrors' = 0
    /\ tripped' = FALSE
    /\ fetchLog' = <<>>
    /\ forceRecrawl' \in BOOLEAN
    /\ startUrls' \in SeedChoices
    /\ today' \in {today + 1, today + RECRAWL_THRESHOLD_DAYS}
    /\ diskAtStart' = disk
    /\ crawledSeeds' = {}
    /\ prevCrawl' = IF crawledSeeds # {}
                    THEN [any |-> TRUE, seeds |-> crawledSeeds, day |-> today]
                    ELSE prevCrawl
    /\ UNCHANGED <<disk, hostUp, flips>>

\* Start URLs over the long chapter: its first section, the first section
\* twice, a section near the end, and five missing sections ahead of the
\* first one.
CeilingSeeds ==
    { <<Chain(1)>>,
      <<Chain(1), Chain(1)>>,
      <<Chain(ChainLen - 2)>>,
      <<Chain(7), Chain(14), Chain(21), Chain(28), Chain(35), Chain(1)>> }

\* A new crawler about to crawl the long chapter, the host up, no earlier
\* crawl on disk.
CeilingInit ==
    /\ Constructed
    /\ forceRecrawl = FALSE
    /\ startUrls \in CeilingSeeds
    /\ disk = NoDisk
    /\ diskAtStart = NoDisk
    /\ today = 0
    /\ runs = 1
    /\ hostUp = TRUE
    /\ flips = 0
    /\ crawledSeeds = {}
    /\ prevCrawl = [any |-> FALSE, seeds |-> {}, day |-> 0]

\* A crawler that is constructed and never run.
CrawlIdle ==
    /\ Constructed
    /\ forceRecrawl = FALSE
    /\ startUrls = BASE_URLS
    /\ disk = NoDisk
    /\ diskAtStart = NoDisk
    /\ today = 0
    /\ runs = 1
    /\ hostUp = TRUE
    /\ flips = 0
    /\ crawledSeeds = {}
    /\ prevCrawl = [any |-> FALSE, seeds |-> {}, day |-> 0]

-----------------------------------------------------------------------------
(* normalizeUrl applied to two URLs with the same scheme, host and path    *)
(* segments.                                                               *)

MaxSlashes == 2

NormSegs == {<<>>, <<"book">>, <<"book", "a">>}
QueryPairs == {<<1, 1>>, <<1, 2>>, <<2, 1>>}
Queries == {<<>>} \cup {<<p>> : p \in QueryPairs}
             \cup {<<p, q>> : p, q \in QueryPairs}
Frags == {"", "section"}

NormInputs(segs) ==
    { Url("https", DocsHost, segs, n, q, f) :
         n \in 0..MaxSlashes, q \in Queries, f \in Frags }

NormIdle ==
    /\ nA = NullUrl
    /\ nB = NullUrl
    /\ oA = NullUrl
    /\ oB = NullUrl
    /\ nDone = FALSE

NormInit ==
    /\ \E segs \in NormSegs : nA \in NormInputs(segs) /\ nB \in NormInputs(segs)
    /\ oA = NullUrl
    /\ oB = NullUrl
    /\ nDone = FALSE

NormalizePair ==
    /\ ~nDone
    /\ oA' = normalizeUrl(nA)
    /\ oB' = normalizeUrl(nB)
    /\ nDone' = TRUE
    /\ UNCHANGED <<nA, nB>>

-----------------------------------------------------------------------------
(* findDocLinks applied to a page with up to MaxHrefs links.               *)

MaxHrefs == 2

HrefChoices ==
    { Href("scheme", "mailto", NoUrl),
      Href("scheme", "MAILTO", NoUrl),
      Href("scheme", "tel", NoUrl),
      Href("scheme", "javascript", NoUrl),
      Href("bad", "", NoUrl),
      Href("empty", "", NoUrl),
      Href("frag", "", Url("", "", <<>>, 0, <<>>, "top")),
      Href("abs", "https", Url("https", "github.com", <<"book", "a">>, 0, <<>>, "")),
      Href("abs", "https", Url("https", DocsHost, <<"book", "intro.html">>, 0, <<>>, "section")),
      Href("abs", "http", Url("http", DocsHost, <<"packages", "core.html">>, 0, <<>>, "")),
      Href("abs", "ftp", Url("ftp", DocsHost, <<"book", "a">>, 0, <<>>, "")),
      Href("abs", "https", Url("https", "docs.onyxlang.io.example.com", <<"book", "a">>, 0, <<>>, "")),
      Href("abs", "https", Url("https", DocsHost, <<"playground">>, 1, <<>>, "")),
      RelHref(<<"intro.html">>, "section"),
      PathHref(<<"book", "a">>, 1, <<<<2, 1>>, <<1, 1>>>>, ""),
      PathHref(<<"book">>, 1, <<>>, ""),
      PathHref(<<"book">>, 2, <<>>, ""),
      PathHref(<<"packages">>, 1, <<>>, ""),
      PathHref(<<"book", "print.html">>, 0, <<>>, ""),
      PathHref(<<"book", "favicon.ico">>, 0, <<>>, ""),
      PathHref(<<"blog", "a">>, 0, <<>>, "") }

SeqsUpTo(S, n) == UNION { [1..k -> S] : k \in 0..n }

LinkIdle ==
    /\ lPage = NullUrl
    /\ lHrefs = <<>>
    /\ lLinks = <<>>
    /\ lDone = FALSE

LinkInit ==
    /\ lPage \in {Overview, DocUrl(<<"packages", "core">>, 1)}
    /\ lHrefs \in SeqsUpTo(HrefChoices, MaxHrefs)
    /\ lLinks = <<>>
    /\ lDone = FALSE

FindLinks ==
    /\ ~lDone
    /\ lLinks' = findDocLinks(lHrefs, lPage)
    /\ lDone' = TRUE
    /\ UNCHANGED <<lPage, lHrefs>>

-----------------------------------------------------------------------------
(* SearchEngine.  A string is a sequence of characters; the alphabet is    *)
(* "a", "b" and the capitals "A", "B".                                     *)

LowerChar(c) ==
    CASE c = "A" -> "a" [] c = "B" -> "b" [] c = "D" -> "d" [] c = "E" -> "e"
      [] c = "M" -> "m" [] c = "N" -> "n" [] c = "O" -> "o" [] c = "R" -> "r"
      [] c = "X" -> "x" [] c = "Y" -> "y" [] c = "C" -> "c" [] c = "L" -> "l"
      [] c = "T" -> "t" [] c = "G" -> "g" [] c = "H" -> "h" [] c = "I" -> "i"
      [] c = "S" -> "s" [] OTHER -> c

\* String.prototype.toLowerCase
toLowerCase(t) == [i \in 1..Len(t) |-> LowerChar(t[i])]

\* String.prototype.includes
includes(t, q) ==
    \E i \in 1..(Len(t) + 1) :
        /\ i + Len(q) - 1 <= Len(t)
        /\ SubSeq(t, i, i + Len(q) - 1) = q

\* String.prototype.indexOf, from 0; -1 when q does not occur in t.
Occurs(t, q) == {i \in 0..(Len(t) - Len(q)) : SubSeq(t, i + 1, i + Len(q)) = q}

indexOf(t, q) ==
    IF Occurs(t, q) = {} THEN -1
    ELSE CHOOSE i \in Occurs(t, q) : \A j \in Occurs(t, q) : i <= j

\* String.prototype.substring(a, b) for 0 <= a.
substring(t, a, b) == SubSeq(t, a + 1, IF b < Len(t) THEN b ELSE Len(t))

Ellipsis == <<".", ".", ".">>

\* A mutant of getSnippet: always the beginning of the content.
getSnippetFromStart(content, query, contextLength) ==
    substring(content, 0, contextLength) \o Ellipsis

\* getSnippet(content, query, contextLength = 150), lines 277-287, for an
\* even contextLength.
getSnippet(content, query, contextLength) ==
    LET index == indexOf(toLowerCase(content), toLowerCase(query))
        start == IF index - contextLength \div 2 > 0
                 THEN index - contextLength \div 2 ELSE 0
        end == IF index + Len(query) + contextLength \div 2 < Len(content)
               THEN index + Len(query) + contextLength \div 2 ELSE Len(content)
    IN  IF index = -1 THEN substring(content, 0, contextLength) \o Ellipsis
        ELSE (IF start > 0 THEN Ellipsis ELSE <<>>)
             \o substring(content, start, end)
             \o (IF end < Len(content) THEN Ellipsis ELSE <<>>)

\* The default of getSnippet's third parameter.
DefaultContextLength == 150

\* The score searchDocs gives a document (lines 49-61).
RECURSIVE HeadingScore(_, _)
HeadingScore(hs, q) ==
    IF hs = <<>> THEN 0
    ELSE (IF includes(toLowerCase(Head(hs).text), q) THEN 5 ELSE 0)
         + HeadingScore(Tail(hs), q)

DocScore(doc, q) ==
    (IF includes(toLowerCase(doc.title), q) THEN 10 ELSE 0)
    + (IF includes(toLowerCase(doc.content), q) THEN 1 ELSE 0)
    + HeadingScore(doc.headings, q)

\* The score searchGitHubFiles gives a file (lines 247-254).
FileScore(file, q) ==
    (IF includes(toLowerCase(file.path), q) THEN 5 ELSE 0)
    + (IF includes(toLowerCase(file.repository), q) THEN 3 ELSE 0)
    + (IF includes(toLowerCase(file.code), q) THEN 1 ELSE 0)

\* A mutant of Matches: every item is kept.
MatchesAlways(score) == TRUE

\* "if (score > 0) results.push(...)": lines 63 and 256.
Matches(score) == score > 0

\* A mutant of Before: ascending order.
BeforeAscending(a, b) == a.score < b.score

\* The comparator (a, b) => b.score - a.score is negative: a sorts before b.
Before(a, b) == b.score - a.score < 0

\* Array.prototype.sort with that comparator: stable, by insertion.
RECURSIVE InsertByScore(_, _)
InsertByScore(s, x) ==
    IF s = <<>> THEN <<x>>
    ELSE IF Before(x, Head(s)) THEN <<x>> \o s
    ELSE <<Head(s)>> \o InsertByScore(Tail(s), x)

RECURSIVE SortByScore(_)
SortByScore(s) ==
    IF s = <<>> THEN <<>>
    ELSE InsertByScore(SortByScore(Front(s)), s[Len(s)])

\* A mutant of Slice: one element too many.
SliceOneMore(s, n) == SubSeq(s, 1, IF n + 1 < Len(s) THEN n + 1 ELSE Len(s))

\* s.slice(0, n) for n >= 0
Slice(s, n) == SubSeq(s, 1, IF n < Len(s) THEN n ELSE Len(s))

\* Math.ceil(a / b) for a >= 0, b > 0
CeilDiv(a, b) == (a + b - 1) \div b

\* The loop of searchDocs over the corpus (lines 48-70).
RECURSIVE ScoreDocs(_, _)
ScoreDocs(corpus, q) ==
    IF corpus = <<>> THEN <<>>
    ELSE (IF Matches(DocScore(Head(corpus), q))
          THEN <<[title |-> Head(corpus).title, url |-> Head(corpus).url,
                  snippet |-> getSnippet(Head(corpus).content, q,
                                         DefaultContextLength),
                  score |-> DocScore(Head(corpus), q)]>>
          ELSE <<>>)
         \o ScoreDocs(Tail(corpus), q)

\* The loop of searchGitHubFiles over the files (lines 246-265).
RECURSIVE ScoreFiles(_, _)
ScoreFiles(files, q) ==
    IF files = <<>> THEN <<>>
    ELSE (IF Matches(FileScore(Head(files), q))
          THEN <<[file |-> Head(files).path, url |-> Head(files).url,
                  score |-> FileScore(Head(files), q)]>>
          ELSE <<>>)
         \o ScoreFiles(Tail(files), q)

\* The keys of this.cache and of filePaths.
Types == {"docs", "githubFiles", "githubPatterns", "examplesByTopic"}

\* What loadData(type) returns: the cached data, the file's, or null.
Null == [present |-> FALSE, data |-> <<>>]

\* A mutant of Loaded: the file is read on every call.
LoadedFromFile(c, st, type) == st[type]

\* "if (this.cache[type]) return this.cache[type]", else the parsed file.
Loaded(c, st, type) == IF c[type].present THEN c[type] ELSE st[type]

\* this.cache after loadData(type).
CacheAfter(c, st, type) == [c EXCEPT ![type] = Loaded(c, st, type)]

\* loadData(type) reaches fs.readFile (line 29) unless the cache holds the corpus.
ReadsFile(c, type) == ~c[type].present

\* The state of the engine after the loadData calls of one query, in order.
RECURSIVE CacheAfterAll(_, _, _)
CacheAfterAll(c, st, types) ==
    IF types = <<>> THEN c
    ELSE CacheAfterAll(CacheAfter(c, st, Head(types)), st, Tail(types))

RECURSIVE ReadsAfterAll(_, _, _, _)
ReadsAfterAll(r, c, st, types) ==
    IF types = <<>> THEN r
    ELSE ReadsAfterAll(IF ReadsFile(c, Head(types))
                       THEN [r EXCEPT ![Head(types)] = @ + 1] ELSE r,
                       CacheAfter(c, st, Head(types)), st, Tail(types))

RECURSIVE FailedAfterAll(_, _, _, _)
FailedAfterAll(f, c, st, types) ==
    IF types = <<>> THEN f
    ELSE FailedAfterAll(IF ~Loaded(c, st, Head(types)).present
                        THEN f \cup {Head(types)} ELSE f,
                        CacheAfter(c, st, Head(types)), st, Tail(types))

\* searchDocs(query, limit)
searchDocs(c, st, query, limit) ==
    IF ~Loaded(c, st, "docs").present
    THEN [error |-> TRUE, source |-> "documentation", totalFound |-> 0,
          results |-> <<>>]
    ELSE LET results == ScoreDocs(Loaded(c, st, "docs").data, toLowerCase(query))
         IN  [error |-> FALSE, source |-> "documentation",
              totalFound |-> Len(results),
              results |-> Slice(SortByScore(results), limit)]

\* searchGitHubFiles(files, query, limit)
searchGitHubFiles(files, query, limit) ==
    LET results == ScoreFiles(files, toLowerCase(query))
    IN  [error |-> FALSE, source |-> "github",
         totalFound |-> Len(results),
         results |-> Slice(SortByScore(results), limit)]

\* "allResults.push({...result, source: sourceResults.source})"
Tagged(r) ==
    [i \in 1..Len(r.results) |->
        [url |-> r.results[i].url, score |-> r.results[i].score,
         source |-> r.source]]

\* The slots of resultsBySources, in insertion order, for the sources asked.
SourceSlots(c, st, query, sources, perSourceLimit) ==
    (IF "docs" \in Range(sources)
     THEN <<searchDocs(c, st, query, perSourceLimit)>> ELSE <<>>)
    \o (IF "github" \in Range(sources) /\ Loaded(c, st, "githubFiles").present
        THEN <<searchGitHubFiles(Loaded(c, st, "githubFiles").data, query,
                                 perSourceLimit)>>
        ELSE <<>>)

\* The keys of resultsBySources, in the order of SourceSlots.
SlotKeys(c, st, sources) ==
    (IF "docs" \in Range(sources) THEN <<"docs">> ELSE <<>>)
    \o (IF "github" \in Range(sources) /\ Loaded(c, st, "githubFiles").present
        THEN <<"github">> ELSE <<>>)

RECURSIVE AllResults(_)
AllResults(slots) ==
    IF slots = <<>> THEN <<>>
    ELSE (IF Head(slots).error THEN <<>> ELSE Tagged(Head(slots)))
         \o AllResults(Tail(slots))

\* searchAll(query, sources, limit), sources not empty
searchAll(c, st, query, sources, limit) ==
    LET perSourceLimit == CeilDiv(limit, Len(sources))
        slots == SourceSlots(c, st, query, sources, perSourceLimit)
    IN  [sources |-> sources,
         slotKeys |-> SlotKeys(c, st, sources),
         resultsBySources |-> slots,
         combinedResults |-> Slice(SortByScore(AllResults(slots)), limit)]

\* An argument the caller left out (undefined).
Undefined == <<"undefined">>

\* The error object of a query whose corpus loadData could not provide.
NotAvailable(hint) == [error |-> TRUE, hint |-> hint]

\* A mutant of searchDocsThrows: the query is used before the corpus is loaded.
searchDocsThrowsBeforeLoad(c, st, query) == query = Undefined

\* "const queryLower = query.toLowerCase()" (line 45) throws a TypeError.
searchDocsThrows(c, st, query) ==
    Loaded(c, st, "docs").present /\ query = Undefined

\* examplesByTopic is an object: a sequence of [topic, examples] in key order.
RECURSIVE TopicsOf(_)
TopicsOf(byTopic) ==
    IF byTopic = <<>> THEN <<>>
    ELSE <<Head(byTopic).topic>> \o TopicsOf(Tail(byTopic))

\* A mutant of TopicMatches: every topic is taken.
TopicMatchesAlways(t, topic) == TRUE

\* The filter of lines 98-101 on one topic name.
TopicMatches(t, topic) ==
    \/ includes(toLowerCase(t), toLowerCase(topic))
    \/ includes(toLowerCase(topic), toLowerCase(t))

RECURSIVE MatchingTopics(_, _)
MatchingTopics(byTopic, topic) ==
    IF byTopic = <<>> THEN <<>>
    ELSE (IF TopicMatches(Head(byTopic).topic, topic) THEN <<Head(byTopic)>> ELSE <<>>)
         \o MatchingTopics(Tail(byTopic), topic)

\* The loop of lines 113-116: the first ceil(limit / n) examples of each topic.
RECURSIVE TopicExamples(_, _)
TopicExamples(matching, perTopic) ==
    IF matching = <<>> THEN <<>>
    ELSE Slice(Head(matching).examples, perTopic)
         \o TopicExamples(Tail(matching), perTopic)

\* "topic.toLowerCase()" in the filter callback throws when there is a topic.
searchGitHubExamplesThrows(c, st, topic) ==
    /\ Loaded(c, st, "examplesByTopic").present
    /\ Loaded(c, st, "examplesByTopic").data # <<>>
    /\ topic = Undefined

\* The UTF-16 code units of the letters topic names are written with.
CharCode(c) ==
    CASE c = "A" -> 65 [] c = "B" -> 66 [] c = "C" -> 67 [] c = "D" -> 68
      [] c = "a" -> 97 [] c = "b" -> 98 [] c = "c" -> 99 [] c = "d" -> 100
      [] OTHER -> 0

\* x < y for strings: the order Array.prototype.sort uses without comparator.
StrLess(x, y) ==
    \E i \in 1..(Len(x) + 1) :
        /\ i <= Len(y)
        /\ SubSeq(x, 1, i - 1) = SubSeq(y, 1, i - 1)
        /\ i = Len(x) + 1 \/ CharCode(x[i]) < CharCode(y[i])

\* availableTopics.sort()
RECURSIVE InsertString(_, _)
InsertString(s, x) ==
    IF s = <<>> THEN <<x>>
    ELSE IF StrLess(x, Head(s)) THEN <<x>> \o s
    ELSE <<Head(s)>> \o InsertString(Tail(s), x)

RECURSIVE SortStrings(_)
SortStrings(s) ==
    IF s = <<>> THEN <<>>
    ELSE InsertString(SortStrings(Front(s)), s[Len(s)])

\* searchGitHubExamples(topic, limit)
searchGitHubExamples(c, st, topic, limit) ==
    IF ~Loaded(c, st, "examplesByTopic").present
    THEN NotAvailable("Run GitHub crawler first.")
    ELSE LET byTopic == Loaded(c, st, "examplesByTopic").data
             matching == MatchingTopics(byTopic, topic)
             examples == IF matching = <<>> THEN <<>>
                         ELSE TopicExamples(matching, CeilDiv(limit, Len(matching)))
         IN  [error |-> FALSE,
              matchingTopics |-> TopicsOf(matching),
              examples |-> Slice(examples, limit),
              totalAvailable |-> Len(examples),
              availableTopics |-> SortStrings(TopicsOf(byTopic))]

\* functions.filter(func => func.definition.toLowerCase().includes(name.toLowerCase()))
RECURSIVE FilterByDefinition(_, _)
FilterByDefinition(items, name) ==
    IF items = <<>> THEN <<>>
    ELSE (IF includes(toLowerCase(Head(items).definition), toLowerCase(name))
          THEN <<Head(items)>> ELSE <<>>)
         \o FilterByDefinition(Tail(items), name)

\* The body shared by getOnyxFunctionExamples and getOnyxStructExamples, on
\* patterns.functions or patterns.structs.  The patterns object is held as
\* the only element of the corpus's data.
PatternExamples(c, st, field, name, limit) ==
    IF ~Loaded(c, st, "githubPatterns").present
    THEN NotAvailable("Run GitHub crawler first.")
    ELSE LET items == Loaded(c, st, "githubPatterns").data[1][field]
             found == IF name = Undefined \/ name = <<>> THEN items
                      ELSE FilterByDefinition(items, name)
         IN  [error |-> FALSE, totalFound |-> Len(found),
              examples |-> Slice(found, limit)]

getOnyxFunctionExamples(c, st, functionName, limit) ==
    PatternExamples(c, st, "functions", functionName, limit)

getOnyxStructExamples(c, st, structName, limit) ==
    PatternExamples(c, st, "structs", structName, limit)

\* The corpora the files of dataDir may hold.
MaxDocs == 3
MaxFiles == 2
MaxLimit == 2

DocChoices ==
    { [url |-> 1, title |-> <<"A", "b">>, content |-> <<"b", "a", "b">>,
       headings |-> <<[text |-> <<"A", "b">>]>>],
      [url |-> 2, title |-> <<"b">>, content |-> <<"b", "a">>,
       headings |-> <<[text |-> <<"a">>], [text |-> <<"a", "b">>]>>],
      [url |-> 3, title |-> <<"B">>, content |-> <<"b", "b">>, headings |-> <<>>] }

FileChoices ==
    { [url |-> 11, path |-> <<"a", "b">>, repository |-> <<"b">>, code |-> <<"a">>],
      [url |-> 12, path |-> <<"b">>, repository |-> <<"A">>, code |-> <<"b", "a">>] }

QueryChoices == { <<"a">>, <<"A", "b">>, <<"b", "b">> }

StoreChoices(S, n) == {Null} \cup {[present |-> TRUE, data |-> d] : d \in SeqsUpTo(S, n)}

MaxCalls == 2

\* this.cache as the constructor leaves it (lines 7-12).
EmptyCache == [t \in Types |-> Null]

SearchIdle ==
    /\ store = [t \in Types |-> Null]
    /\ cache = EmptyCache
    /\ sQuery = <<>>
    /\ sLimit = 0
    /\ sOut = [op |-> "none"]
    /\ sCalls = 0
    /\ reads = [t \in Types |-> 0]
    /\ failed = {}
    /\ sStale = FALSE

\* A new SearchEngine (constructor, lines 5-13) over a data directory.
\* A data directory that holds the documentation and GitHub file corpora.
CorpusStores ==
    { [t \in Types |-> CASE t = "docs" -> d [] t = "githubFiles" -> f [] OTHER -> Null] :
         d \in StoreChoices(DocChoices, MaxDocs),
         f \in StoreChoices(FileChoices, MaxFiles) }

SearchInit ==
    /\ store \in CorpusStores
    /\ cache = EmptyCache
    /\ sQuery \in QueryChoices
    /\ sLimit \in 0..MaxLimit
    /\ sOut = [op |-> "none"]
    /\ sCalls = 0
    /\ reads = [t \in Types |-> 0]
    /\ failed = {}
    /\ sStale = FALSE

\* A documentation corpus about allocators: a long page whose text names
\* them far from both ends, a short page, a page that matches in title,
\* content and two headings, and a page that does not match.
Filler(n) == [i \in 1..n |-> "x"]

BookDocs ==
    { [url |-> 21, title |-> <<"A", "l", "l", "o", "c", "a", "t", "o", "r", "s">>,
       content |-> Filler(160) \o <<" ", "A", "l", "l", "o", "c", "a", "t", "o", "r", "s", " ", "o", "w", "n", " ", "m", "e", "m", "o", "r", "y", " ">> \o Filler(80),
       headings |-> <<>>],
      [url |-> 22, title |-> <<"A", "l", "l", "o", "c", "a", "t", "o", "r", "s">>,
       content |-> <<"a", "n", " ", "a", "l", "l", "o", "c", "a", "t", "o", "r">>,
       headings |-> <<[text |-> <<"A", "l", "l", "o", "c", "a", "t", "o", "r">>]>>],
      [url |-> 23, title |-> <<"a", "l", "l", "o", "c", "a", "t", "o", "r", " ", "a", "p", "i">>,
       content |-> <<"t", "h", "e", " ", "A", "L", "L", "O", "C", "A", "T", "O", "R">>,
       headings |-> <<[text |-> <<"a", "l", "l", "o", "c", "a", "t", "o", "r">>], [text |-> <<"a", "l", "l", "o", "c", "a", "t", "o", "r", "s">>]>>],
      [url |-> 24, title |-> <<"m", "e", "m", "o", "r", "y">>, content |-> <<"h", "e", "a", "p">>, headings |-> <<>>] }

BookQueries ==
    { <<"a", "l", "l", "o", "c", "a", "t", "o", "r">>,
      <<"A", "l", "l", "o", "c", "a", "t", "o", "r">>,
      <<"A", "L", "L", "O", "C", "A", "T", "O", "R">> }

\* A new SearchEngine over a data directory that holds that corpus, or no
\* documentation corpus.
BookInit ==
    /\ store \in { [t \in Types |-> IF t = "docs" THEN d ELSE Null] :
                      d \in StoreChoices(BookDocs, MaxDocs) }
    /\ cache = EmptyCache
    /\ sQuery \in BookQueries
    /\ sLimit \in 0..MaxLimit
    /\ sOut = [op |-> "none"]
    /\ sCalls = 0
    /\ reads = [t \in Types |-> 0]
    /\ failed = {}
    /\ sStale = FALSE

\* The topics github-examples-by-topic.json may hold, each with its examples,
\* and the topic objects of up to MaxTopics different keys.
MaxTopics == 3

TopicEntries ==
    { [topic |-> <<"a">>, examples |-> <<[url |-> 41], [url |-> 42], [url |-> 43]>>],
      [topic |-> <<"B", "b">>, examples |-> <<[url |-> 44]>>],
      [topic |-> <<"a", "b">>, examples |-> <<[url |-> 45], [url |-> 46]>>],
      [topic |-> <<"c">>, examples |-> <<>>] }

TopicObjects ==
    { o \in SeqsUpTo(TopicEntries, MaxTopics) :
        \A i, j \in 1..Len(o) : o[i].topic = o[j].topic => i = j }

TopicQueries == { <<"a">>, <<"A", "b">>, <<"b", "b">>, <<"B">>, <<"d">> }

\* A new SearchEngine over a data directory that holds such a topic object.
TopicInit ==
    /\ store \in { [t \in Types |-> IF t = "examplesByTopic"
                                     THEN [present |-> TRUE, data |-> o]
                                     ELSE Null] : o \in TopicObjects }
    /\ cache = EmptyCache
    /\ sQuery \in TopicQueries
    /\ sLimit \in 0..MaxLimit
    /\ sOut = [op |-> "none"]
    /\ sCalls = 0
    /\ reads = [t \in Types |-> 0]
    /\ failed = {}
    /\ sStale = FALSE

\* The loadData calls of a query, in order, as they change the engine.
LoadAll(types) ==
    /\ cache' = CacheAfterAll(cache, store, types)
    /\ reads' = ReadsAfterAll(reads, cache, store, types)
    /\ failed' = FailedAfterAll(failed, cache, store, types)
    /\ sStale' = \E i \in 1..Len(types) :
                    cache[types[i]].present /\ store[types[i]] # cache[types[i]]

\* The result of an async method: the value its promise resolves to, or the
\* rejection of the promise.
Returned(op, v) == [op |-> op, threw |-> FALSE, val |-> v]
Threw(op) == [op |-> "threw", by |-> op]

\* searchDocs(query, sLimit)
SearchDocsCall(query) ==
    /\ sCalls < MaxCalls
    /\ sCalls' = sCalls + 1
    /\ LoadAll(<<"docs">>)
    /\ sOut' = IF searchDocsThrows(cache, store, query) THEN Threw("searchDocs")
               ELSE Returned("searchDocs", searchDocs(cache, store, query, sLimit))
    /\ UNCHANGED <<store, sQuery, sLimit>>

CallSearchDocs == SearchDocsCall(sQuery)

\* The corpora searchAll loads for the sources asked (lines 202-217).
LoadsOfSources(sources) ==
    (IF "docs" \in Range(sources) THEN <<"docs">> ELSE <<>>)
    \o (IF "github" \in Range(sources) THEN <<"githubFiles">> ELSE <<>>)

CallSearchAll ==
    /\ sCalls < MaxCalls
    /\ sCalls' = sCalls + 1
    /\ \E sources \in {<<"docs", "github">>, <<"docs">>, <<"github">>} :
         /\ LoadAll(LoadsOfSources(sources))
         /\ sOut' = Returned("searchAll",
                             searchAll(cache, store, sQuery, sources, sLimit))
    /\ UNCHANGED <<store, sQuery, sLimit>>

\* searchGitHubExamples(topic, sLimit)
SearchGitHubExamplesCall(topic) ==
    /\ sCalls < MaxCalls
    /\ sCalls' = sCalls + 1
    /\ LoadAll(<<"examplesByTopic">>)
    /\ sOut' = IF searchGitHubExamplesThrows(cache, store, topic)
               THEN Threw("searchGitHubExamples")
               ELSE Returned("searchGitHubExamples",
                             searchGitHubExamples(cache, store, topic, sLimit))
    /\ UNCHANGED <<store, sQuery, sLimit>>

\* getOnyxFunctionExamples(name, sLimit)
GetOnyxFunctionExamplesCall(name) ==
    /\ sCalls < MaxCalls
    /\ sCalls' = sCalls + 1
    /\ LoadAll(<<"githubPatterns">>)
    /\ sOut' = Returned("getOnyxFunctionExamples",
                        getOnyxFunctionExamples(cache, store, name, sLimit))
    /\ UNCHANGED <<store, sQuery, sLimit>>

\* getOnyxStructExamples(name, sLimit)
GetOnyxStructExamplesCall(name) ==
    /\ sCalls < MaxCalls
    /\ sCalls' = sCalls + 1
    /\ LoadAll(<<"githubPatterns">>)
    /\ sOut' = Returned("getOnyxStructExamples",
                        getOnyxStructExamples(cache, store, name, sLimit))
    /\ UNCHANGED <<store, sQuery, sLimit>>

\* The data directories of a SearchEngine that lives while crawlers run: each
\* corpus file is missing or holds one of a few small corpora.
TopicChoices ==
    { <<>>,
      << [topic |-> <<"a">>, examples |-> <<[url |-> 21], [url |-> 22]>>],
         [topic |-> <<"B", "b">>, examples |-> <<[url |-> 23]>>] >> }

PatternChoices ==
    { [functions |-> <<[definition |-> <<"a", "b">>, url |-> 31],
                      [definition |-> <<"b">>, url |-> 32]>>,
       structs |-> <<[definition |-> <<"B", "a">>, url |-> 33]>>] }

FileOf(type) ==
    {Null} \cup
    CASE type = "docs" ->
            {[present |-> TRUE, data |-> <<d>>] : d \in {x \in DocChoices : x.url = 1}}
      [] type = "githubFiles" ->
            {[present |-> TRUE, data |-> <<f>>] : f \in {x \in FileChoices : x.url = 11}}
      [] type = "githubPatterns" -> {[present |-> TRUE, data |-> <<x>>] : x \in PatternChoices}
      [] OTHER -> {[present |-> TRUE, data |-> x] : x \in TopicChoices}

EngineInit ==
    /\ store \in { [t \in Types |-> CASE t = "docs" -> d
                                     [] t = "githubFiles" -> f
                                     [] t = "githubPatterns" -> p
                                     [] OTHER -> e] :
                      d \in FileOf("docs"), f \in FileOf("githubFiles"),
                      p \in FileOf("githubPatterns"), e \in FileOf("examplesByTopic") }
    /\ cache = EmptyCache
    /\ sQuery \in QueryChoices
    /\ sLimit \in 1..MaxLimit
    /\ sOut = [op |-> "none"]
    /\ sCalls = 0
    /\ reads = [t \in Types |-> 0]
    /\ failed = {}
    /\ sStale = FALSE

\* A crawler (another process) writes, rewrites or removes one corpus file.
Rewrite ==
    /\ \E t \in Types : \E x \in FileOf(t) \ {store[t]} :
          store' = [store EXCEPT ![t] = x]
    /\ UNCHANGED <<cache, sQuery, sLimit, sOut, sCalls, reads, failed, sStale>>

-----------------------------------------------------------------------------
(* SharedMcpImplementation: the tools of the MCP interface.  A path is the  *)
(* sequence of its segments from the root; a relative path may hold "..".   *)

\* path.normalize on a sequence of segments: "." and ".." are resolved.
RECURSIVE NormFrom(_, _)
NormFrom(acc, segs) ==
    IF segs = <<>> THEN acc
    ELSE IF Head(segs) = "." THEN NormFrom(acc, Tail(segs))
    ELSE IF Head(segs) = ".." THEN NormFrom(Front(acc), Tail(segs))
    ELSE NormFrom(Append(acc, Head(segs)), Tail(segs))

\* path.join(base, rel) for an absolute base.
JoinPath(base, rel) == NormFrom(<<>>, base \o rel)

\* process.cwd(), and this.dataDir = path.join(__dirname, '../data').
Cwd == <<"app">>
DataDir == <<"app", "data">>

\* path.join(this.dataDir, 'temp')
TempDir == JoinPath(DataDir, <<"temp">>)

\* path.resolve(directory) for a relative directory.
ResolveDir(directory) == JoinPath(Cwd, directory)

\* The file loadData reads for a corpus (filePaths, search-engine.js 20-25).
CorpusPath(type) ==
    CASE type = "docs" -> JoinPath(DataDir, <<"onyx-docs.json">>)
      [] type = "githubFiles" -> JoinPath(DataDir, <<"github", "onyx-code.json">>)
      [] type = "githubPatterns" -> JoinPath(DataDir, <<"github", "code-patterns.json">>)
      [] OTHER -> JoinPath(DataDir, <<"github", "examples-by-topic.json">>)

CorpusPaths == {CorpusPath(t) : t \in Types}

\* The directories that exist (the temp directory is made by mkdir).
ExistingDirs == {<<>>, Cwd, DataDir, TempDir, JoinPath(DataDir, <<"github">>)}

\* The filename and directory arguments a caller may pass.
FilenameChoices ==
    { <<"onyx-docs.json">>, <<"..", "onyx-docs.json">>,
      <<"..", "..", "main.onyx">>, <<"sub", "a.onyx">>, <<"..">> }

DirectoryChoices == { <<"data">>, <<"missing">> }

\* The defaults of the filename and directory parameters.
DefaultRunFilename == <<"temp.onyx">>
DefaultBuildFilename == <<"main.onyx">>
DefaultDirectory == <<".">>

\* The files the tools can reach other than the corpus files.
ScratchPaths ==
    ({JoinPath(TempDir, f) : f \in FilenameChoices \cup {DefaultRunFilename}}
     \cup {JoinPath(ResolveDir(d), f) :
              d \in DirectoryChoices \cup {DefaultDirectory},
              f \in FilenameChoices \cup {DefaultBuildFilename}})
    \ (CorpusPaths \cup ExistingDirs)

\* The path lies inside the directory dir.
Inside(path, dir) ==
    Len(path) > Len(dir) /\ SubSeq(path, 1, Len(dir)) = dir

\* A file that does not exist.
NoFile == <<"absent">>

\* A corpus file that holds something JSON.parse rejects (Onyx code).
Clobbered == [present |-> FALSE, data |-> <<"code">>]

\* fs.writeFile(path, code): "ok", or the error it throws.
WriteError(path, code) ==
    IF code = Undefined THEN "ERR_INVALID_ARG_TYPE"
    ELSE IF path \in ExistingDirs THEN "EISDIR"
    ELSE IF Front(path) \notin ExistingDirs THEN "ENOENT"
    ELSE "ok"

\* The corpus files and the other files after fs.writeFile(path, code).
StoreAfterWrite(st, path) ==
    [t \in Types |-> IF CorpusPath(t) = path THEN Clobbered ELSE st[t]]

FsAfterWrite(f, path, code) ==
    [q \in ScratchPaths |-> IF q = path THEN code ELSE f[q]]

\* The corpus files and the other files after fs.unlink(path).
StoreAfterUnlink(st, path) ==
    [t \in Types |-> IF CorpusPath(t) = path THEN Null ELSE st[t]]

FsAfterUnlink(f, path) ==
    [q \in ScratchPaths |-> IF q = path THEN NoFile ELSE f[q]]

\* The timeout argument: <<>> when the caller gave none, else <<seconds>>.
TimeoutChoices == { <<>>, <<0>>, <<1>> }

\* The default parameters of runOnyxCode and buildOnyxCode.
DefaultRunTimeout == 10
DefaultBuildTimeout == 30

TimeoutOr(t, default) == IF t = <<>> THEN default ELSE t[1]
FilenameOr(f, default) == IF f = Undefined THEN default ELSE f

\* The delay of setTimeout(..., timeoutSeconds * 1000), in seconds.
Delay(timeoutSeconds) == IF timeoutSeconds < 0 THEN 0 ELSE timeoutSeconds

\* No child process, no timer.
NoInvocation ==
    [tool |-> "none", path |-> <<>>, timeoutSeconds |-> 0,
     finished |-> TRUE, armed |-> FALSE, child |-> "none"]

\* What came out of a call: nothing yet ("pending"), a response, or a
\* rejection that left the method ("threw").
NoOutcome ==
    [kind |-> "none", tool |-> "none", via |-> "none",
     success |-> FALSE, exitCode |-> 0, timedOut |-> FALSE, isError |-> FALSE,
     caughtBy |-> "none"]

Pending(tool) == [NoOutcome EXCEPT !.kind = "pending", !.tool = tool]

\* formatResponse(JSON.stringify(response)) of a process result.
ProcessResponse(tool, result) ==
    [NoOutcome EXCEPT !.kind = "response", !.tool = tool,
                      !.success = result.success, !.exitCode = result.exitCode,
                      !.timedOut = result.timedOut]

\* formatResponse(JSON.stringify(errorResponse)) of a tool's own catch.
ErrorResponse(tool) ==
    [NoOutcome EXCEPT !.kind = "response", !.tool = tool, !.isError = TRUE,
                      !.caughtBy = "tool"]

\* formatResponse(JSON.stringify(results)) of a search method.
SearchResponse(tool) == [NoOutcome EXCEPT !.kind = "response", !.tool = tool]

\* A rejection that leaves the tool's method.
Rejection(tool) == [NoOutcome EXCEPT !.kind = "threw", !.tool = tool]

\* executeTool's try/catch around its switch (lines 751, 789-794): a
\* rejection becomes formatResponse(`Error: ...`).
executeToolRethrows(r) == r
executeToolResult(r) ==
    IF r.kind = "threw"
    THEN [ErrorResponse(r.tool) EXCEPT !.caughtBy = "executeTool"]
    ELSE r

\* The results the three handlers of executeOnyxFile / executeOnyxCommand
\* resolve with.
TimeoutResult == [success |-> FALSE, exitCode |-> -1, timedOut |-> TRUE]
CloseResult(code) == [success |-> code = 0, exitCode |-> code, timedOut |-> FALSE]
ErrorResult == [success |-> FALSE, exitCode |-> -1, timedOut |-> FALSE]

ToolIdle ==
    /\ fs = [q \in ScratchPaths |-> NoFile]
    /\ inv = NoInvocation
    /\ clock = 0
    /\ tOut = NoOutcome

\* The latest second the clock of a running child is followed to.
MaxClock == 11

\* A file or directory exists at the path (fs.access).
Exists(path) ==
    \/ path \in ExistingDirs
    \/ \E t \in Types : CorpusPath(t) = path /\ store[t] # Null
    \/ path \in ScratchPaths /\ fs[path] # NoFile

\* One call at a time, up to MaxCalls calls.
CanCall == sCalls < MaxCalls /\ tOut.kind # "pending"

\* A tool that only queries the search engine: executeTool awaits the
\* engine method and formats what it returns.
QueryTool(tool, call) ==
    /\ CanCall
    /\ call
    /\ tOut' = executeToolResult(IF sOut'.op = "threw" THEN Rejection(tool)
                                 ELSE SearchResponse(tool))
    /\ UNCHANGED <<fs, inv, clock>>

\* A call that ends at once with the outcome r and touches no file.
EndsAtOnce(r) ==
    /\ sCalls' = sCalls + 1
    /\ tOut' = executeToolResult(r)
    /\ UNCHANGED <<store, cache, sQuery, sLimit, sOut, reads, failed, sStale>>
    /\ UNCHANGED <<fs, inv, clock>>

\* The catch of runOnyxCode / buildOnyxCode: it reads code.length, which
\* throws again when code is undefined.
CodeToolCatch(tool, code) ==
    IF code = Undefined THEN Rejection(tool) ELSE ErrorResponse(tool)

\* spawn + setTimeout of executeOnyxFile / executeOnyxCommand.
Spawned(tool, path, timeoutSeconds) ==
    /\ inv' = [tool |-> tool, path |-> path, timeoutSeconds |-> timeoutSeconds,
               finished |-> FALSE, armed |-> TRUE, child |-> "running"]
    /\ clock' = 0
    /\ tOut' = Pending(tool)

\* executeTool('run_onyx_code', {code, filename, timeout})
RunOnyxCode(code, filename, timeout) ==
    LET filePath == JoinPath(TempDir, FilenameOr(filename, DefaultRunFilename))
    IN  /\ CanCall
        /\ IF WriteError(filePath, code) # "ok"
           THEN EndsAtOnce(CodeToolCatch("run_onyx_code", code))
           ELSE /\ sCalls' = sCalls + 1
                /\ store' = StoreAfterWrite(store, filePath)
                /\ fs' = FsAfterWrite(fs, filePath, code)
                /\ Spawned("run_onyx_code", filePath,
                           TimeoutOr(timeout, DefaultRunTimeout))
                /\ UNCHANGED <<cache, sQuery, sLimit, sOut, reads, failed, sStale>>

\* executeTool('build_onyx_code', {code, filename, directory, timeout})
BuildOnyxCode(code, filename, directory, timeout) ==
    LET targetDir == ResolveDir(FilenameOr(directory, DefaultDirectory))
        filePath == JoinPath(targetDir, FilenameOr(filename, DefaultBuildFilename))
    IN  /\ CanCall
        /\ IF targetDir \notin ExistingDirs \/ WriteError(filePath, code) # "ok"
           THEN EndsAtOnce(CodeToolCatch("build_onyx_code", code))
           ELSE /\ sCalls' = sCalls + 1
                /\ store' = StoreAfterWrite(store, filePath)
                /\ fs' = FsAfterWrite(fs, filePath, code)
                /\ Spawned("build_onyx_code", filePath,
                           TimeoutOr(timeout, DefaultBuildTimeout))
                /\ UNCHANGED <<cache, sQuery, sLimit, sOut, reads, failed, sStale>>

\* The tools that run the onyx command on what is already on disk:
\* run_wasm (wasmPath, directory) and onyx_pkg_build (directory).
RunsOnDisk(tool, needed, directory, timeout, default) ==
    LET targetDir == ResolveDir(FilenameOr(directory, DefaultDirectory))
    IN  /\ CanCall
        /\ IF targetDir \notin ExistingDirs
              \/ \E w \in needed : ~Exists(JoinPath(targetDir, w))
           THEN EndsAtOnce(ErrorResponse(tool))
           ELSE /\ sCalls' = sCalls + 1
                /\ Spawned(tool, <<>>, TimeoutOr(timeout, default))
                /\ UNCHANGED <<store, cache, sQuery, sLimit, sOut, reads, failed,
                               sStale, fs>>

DefaultWasmTimeout == 10
DefaultPkgTimeout == 60

RunWasm(wasmPath, directory, timeout) ==
    RunsOnDisk("run_wasm", {wasmPath}, directory, timeout, DefaultWasmTimeout)

OnyxPkgBuild(directory, timeout) ==
    RunsOnDisk("onyx_pkg_build", {}, directory, timeout, DefaultPkgTimeout)

\* executeTool('list_github_repos'): the method has its own catch.
ListGitHubRepos ==
    /\ CanCall
    /\ \E readable \in BOOLEAN :
          EndsAtOnce(IF readable THEN SearchResponse("list_github_repos")
                     ELSE ErrorResponse("list_github_repos"))

\* executeTool with a name that is no case of the switch.
UnknownTool == CanCall /\ EndsAtOnce(Rejection("unknown"))

\* The promise of executeOnyxFile / executeOnyxCommand resolves: the tool
\* method goes on (runOnyxCode removes its file) and answers.
Settle(result) ==
    /\ tOut' = executeToolResult(ProcessResponse(inv.tool, result))
    /\ clock' = 0
    /\ IF inv.tool = "run_onyx_code"
       THEN /\ store' = StoreAfterUnlink(store, inv.path)
            /\ fs' = FsAfterUnlink(fs, inv.path)
       ELSE UNCHANGED <<store, fs>>

\* The timer callback resolves the promise.
TimerKeepsWaiting(result) == UNCHANGED <<tOut, store, fs, clock>>
TimerResolves(result) == Settle(result)

\* The setTimeout callback (lines 615-627, 695-707).
TimerFires ==
    /\ inv.armed
    /\ clock >= Delay(inv.timeoutSeconds)
    /\ IF ~inv.finished
       THEN /\ inv' = [inv EXCEPT !.armed = FALSE, !.finished = TRUE,
                                  !.child = IF @ = "running" THEN "signalled" ELSE @]
            /\ TimerResolves(TimeoutResult)
       ELSE /\ inv' = [inv EXCEPT !.armed = FALSE]
            /\ UNCHANGED <<tOut, store, fs, clock>>
    /\ UNCHANGED <<cache, sQuery, sLimit, sOut, sCalls, reads, failed, sStale>>

\* A mutant of ChildClose: the handler does not test "finished".
ChildCloseAlwaysResolves(code) ==
    /\ inv.child \in {"running", "signalled", "errored"}
    /\ inv' = [inv EXCEPT !.child = "closed", !.finished = TRUE, !.armed = FALSE]
    /\ Settle(CloseResult(code))
    /\ UNCHANGED <<cache, sQuery, sLimit, sOut, sCalls, reads, failed, sStale>>

\* child.on('close', code) (lines 640-653, 720-733).
ChildClose(code) ==
    /\ inv.child \in {"running", "signalled", "errored"}
    /\ IF ~inv.finished
       THEN /\ inv' = [inv EXCEPT !.child = "closed", !.finished = TRUE,
                                  !.armed = FALSE]
            /\ Settle(CloseResult(code))
       ELSE /\ inv' = [inv EXCEPT !.child = "closed"]
            /\ UNCHANGED <<tOut, store, fs, clock>>
    /\ UNCHANGED <<cache, sQuery, sLimit, sOut, sCalls, reads, failed, sStale>>

\* child.on('error') (lines 656-669, 736-746): the command could not start.
ChildError ==
    /\ inv.child = "running"
    /\ IF ~inv.finished
       THEN /\ inv' = [inv EXCEPT !.child = "errored", !.finished = TRUE,
                                  !.armed = FALSE]
            /\ Settle(ErrorResult)
       ELSE /\ inv' = [inv EXCEPT !.child = "errored"]
            /\ UNCHANGED <<tOut, store, fs, clock>>
    /\ UNCHANGED <<cache, sQuery, sLimit, sOut, sCalls, reads, failed, sStale>>

\* A second passes while a call is pending; a due timer fires first.
Tick ==
    /\ tOut.kind = "pending"
    /\ clock < MaxClock
    /\ inv.armed => clock < Delay(inv.timeoutSeconds)
    /\ clock' = clock + 1
    /\ UNCHANGED <<searchVars, fs, inv, tOut>>

\* What fetchJson meets (bridge.js 35-49).
FetchOutcomes == {"ok", "unreachable", "http_error", "bad_json"}

\* The bridge's CallTool handler (bridge.js 76-114) forwarding a
\* documentation search: the HTTP server runs the tool when it is reached.
BridgeCall(net) ==
    /\ CanCall
    /\ IF net = "ok"
       THEN SearchDocsCall(sQuery)
       ELSE /\ sCalls' = sCalls + 1
            /\ UNCHANGED <<store, cache, sQuery, sLimit, sOut, reads, failed, sStale>>
    /\ tOut' = [NoOutcome EXCEPT !.kind = "response", !.tool = "search_onyx_docs",
                                 !.via = "bridge", !.isError = (net # "ok"),
                                 !.caughtBy = IF net # "ok" THEN "bridge" ELSE "none"]
    /\ UNCHANGED <<fs, inv, clock>>

\* A server over a data directory whose documentation corpus may be there.
ToolInit ==
    /\ store \in { [t \in Types |-> IF t = "docs" THEN d ELSE Null] :
                      d \in FileOf("docs") }
    /\ cache = EmptyCache
    /\ sQuery = <<"a">>
    /\ sLimit = MaxLimit
    /\ sOut = [op |-> "none"]
    /\ sCalls = 0
    /\ reads = [t \in Types |-> 0]
    /\ failed = {}
    /\ sStale = FALSE
    /\ ToolIdle

CodeChoices == { <<"c">>, Undefined }

-----------------------------------------------------------------------------
(* GitHubCrawler.parseGitHubUrls.  Text is a sequence of characters. *)

\* The text starts with / ends with the characters of p.
StartsWith(t, p) == Len(t) >= Len(p) /\ SubSeq(t, 1, Len(p)) = p
EndsWith(t, p) == Len(t) >= Len(p) /\ SubSeq(t, Len(t) - Len(p) + 1, Len(t)) = p

\* The text after its first n characters.
Drop(t, n) == SubSeq(t, n + 1, Len(t))

\* The positions at which p occurs in t.
Occurrences(t, p) ==
    {i \in 1..(Len(t) - Len(p) + 1) : SubSeq(t, i, i + Len(p) - 1) = p}

Min(S) == CHOOSE x \in S : \A y \in S : x <= y

\* t.replace(/p.*$/, ''): the text is cut at the first occurrence of p.
CutAt(t, p) ==
    IF Occurrences(t, p) = {} THEN t ELSE SubSeq(t, 1, Min(Occurrences(t, p)) - 1)

\* t.replace(/^p/, '') and t.replace(/p$/, '')
StripPrefix(t, p) == IF StartsWith(t, p) THEN Drop(t, Len(p)) ELSE t
StripSuffix(t, p) == IF EndsWith(t, p) THEN SubSeq(t, 1, Len(t) - Len(p)) ELSE t

\* String.prototype.trim for blanks.
RECURSIVE TrimStart(_)
TrimStart(t) == IF t # <<>> /\ Head(t) = " " THEN TrimStart(Tail(t)) ELSE t

RECURSIVE TrimEnd(_)
TrimEnd(t) == IF t # <<>> /\ t[Len(t)] = " " THEN TrimEnd(Front(t)) ELSE t

trim(t) == TrimEnd(TrimStart(t))

\* t.split('/')
RECURSIVE SplitFrom(_, _, _)
SplitFrom(parts, cur, t) ==
    IF t = <<>> THEN Append(parts, cur)
    ELSE IF Head(t) = "/" THEN SplitFrom(Append(parts, cur), <<>>, Tail(t))
    ELSE SplitFrom(parts, Append(cur, Head(t)), Tail(t))

split(t) == SplitFrom(<<>>, <<>>, t)

\* The texts the regular expressions of parseGitHubUrls are made of.
Slashes2 == <<"/", "/">>
Http == <<"h", "t", "t", "p">>
Https == <<"h", "t", "t", "p", "s">>
GithubCom == <<"g", "i", "t", "h", "u", "b", ".", "c", "o", "m", "/">>
DotGit == <<".", "g", "i", "t">>
TreeDir == <<"/", "t", "r", "e", "e", "/">>
BlobDir == <<"/", "b", "l", "o", "b", "/">>
Releases == <<"/", "r", "e", "l", "e", "a", "s", "e", "s">>
Issues == <<"/", "i", "s", "s", "u", "e", "s">>
Pull == <<"/", "p", "u", "l", "l">>

\* cleanUrl.replace(/^https?\/\//, ''): the expression has no colon.
ProtocolPattern == {Https \o Slashes2, Http \o Slashes2}

RemoveProtocol(t) ==
    IF \E p \in ProtocolPattern : StartsWith(t, p)
    THEN Drop(t, Len(CHOOSE p \in ProtocolPattern : StartsWith(t, p)))
    ELSE t

\* Lines 464-480: the text that is split into owner and name.
CleanUrl(url) ==
    CutAt(CutAt(CutAt(CutAt(CutAt(
        StripSuffix(StripPrefix(RemoveProtocol(trim(url)), GithubCom), DotGit),
        TreeDir), BlobDir), Releases), Issues), Pull)

\* parseGitHubUrls([url]): the repositories pushed (lines 483-496).
parseGitHubUrls(url) ==
    LET parts == split(CleanUrl(url))
    IN  IF Len(parts) >= 2
        THEN << [owner |-> parts[1], name |-> parts[2]] >>
        ELSE <<>>

\* The ways a repository is written.
ProtocolChoices ==
    { <<>>, Https \o <<":">> \o Slashes2, Http \o <<":">> \o Slashes2,
      Https \o Slashes2 }
HostChoices == { <<>>, GithubCom }
OwnerChoices == { <<"o">>, <<"a", "b">> }
NameChoices == { <<"r">>, <<"c", ".", "d">> }
SuffixChoices ==
    { <<>>, DotGit, TreeDir \o <<"m">>, BlobDir \o <<"m", "/", "f">>,
      Issues \o <<"/", "1">>, <<" ">> }

UrlText(u) == u.protocol \o u.host \o u.owner \o <<"/">> \o u.name \o u.suffix

ParseIdle ==
    /\ gUrl = [protocol |-> <<>>, host |-> <<>>, owner |-> <<>>, name |-> <<>>,
               suffix |-> <<>>, parsed |-> FALSE]
    /\ gRepos = <<>>

ParseInit ==
    /\ gUrl \in [protocol : ProtocolChoices, host : HostChoices,
                  owner : OwnerChoices, name : NameChoices, suffix : SuffixChoices,
                  parsed : {FALSE}]
    /\ gRepos = <<>>

\* crawler.parseGitHubUrls([text])
ParseGitHubUrls ==
    /\ ~gUrl.parsed
    /\ gUrl' = [gUrl EXCEPT !.parsed = TRUE]
    /\ gRepos' = parseGitHubUrls(UrlText(gUrl))
    /\ UNCHANGED <<gPath, gType>>

-----------------------------------------------------------------------------
(* GitHubCrawler.determineFileType *)

\* The rules in the order of the code: <<the rule applies, its type>>.
TypeRules(path) ==
    LET Ends(x) == EndsWith(path, x)
        Has(x) == includes(path, x)
        html == Ends(<<".", "h", "t", "m", "l">>)
    IN  << <<Ends(<<".", "o", "n", "y", "x">>), "source">>,
           <<Ends(<<".", "k", "d", "l">>), "project-config">>,
           <<path = <<"o", "n", "y", "x", ".", "p", "k", "g">> \/ Ends(<<".", "o", "n", "y", "x", ".", "p", "k", "g">>), "package-config">>,
           <<path = <<"r", "e", "a", "d", "m", "e", ".", "m", "d">> \/ path = <<"r", "e", "a", "d", "m", "e", ".", "t", "x", "t">> \/ path = <<"r", "e", "a", "d", "m", "e">>, "readme">>,
           <<Has(<<"l", "i", "c", "e", "n", "s", "e">>), "license">>,
           <<Has(<<"c", "h", "a", "n", "g", "e", "l", "o", "g">>), "changelog">>,
           <<Has(<<"d", "o", "c">>) /\ (Ends(<<".", "m", "d">>) \/ html), "documentation">>,
           <<Has(<<"e", "x", "a", "m", "p", "l", "e">>), "example">>,
           <<html /\ (Has(<<"d", "o", "c">>) \/ Has(<<"m", "a", "n", "u", "a", "l">>) \/ Has(<<"g", "u", "i", "d", "e">>)),
             "documentation">>,
           <<html /\ (Has(<<"e", "x", "a", "m", "p", "l", "e">>) \/ Has(<<"d", "e", "m", "o">>) \/ Has(<<"t", "u", "t", "o", "r", "i", "a", "l">>)),
             "example">>,
           <<html /\ Has(<<"i", "n", "d", "e", "x">>), "web-index">>,
           <<html, "web-content">>,
           <<Ends(<<".", "t", "o", "m", "l">>) \/ Ends(<<".", "y", "a", "m", "l">>) \/ Ends(<<".", "y", "m", "l">>), "config">>,
           <<Ends(<<".", "j", "s", "o", "n">>), "config">>,
           <<Ends(<<".", "m", "d">>), "markdown">>,
           <<Ends(<<".", "t", "x", "t">>), "text">> >>

\* The type of the first rule that applies, 'other' when none does.
RECURSIVE FirstMatch(_)
FirstMatch(rules) ==
    IF Len(rules) = 0 THEN "other"
    ELSE IF Head(rules)[1] THEN Head(rules)[2]
    ELSE FirstMatch(Tail(rules))

\* determineFileType(filePath) (lines 732-756)
determineFileTypeExampleFirst(filePath) ==
    IF includes(toLowerCase(filePath), <<"e", "x", "a", "m", "p", "l", "e">>) THEN "example"
    ELSE FirstMatch(TypeRules(toLowerCase(filePath)))
determineFileType(filePath) == FirstMatch(TypeRules(toLowerCase(filePath)))

\* The paths of repository files: directory, base name, extension.
DirChoices == { <<>>, <<"e", "x", "a", "m", "p", "l", "e", "s", "/">>, <<"d", "o", "c", "s", "/">>, <<"s", "r", "c", "/">> }
BaseChoices == { <<"R", "E", "A", "D", "M", "E">>, <<"r", "e", "a", "d", "m", "e">>, <<"h", "t", "t", "p", "_", "d", "e", "m", "o">>, <<"l", "i", "c", "e", "n", "s", "e">>, <<"i", "n", "d", "e", "x">> }
ExtChoices ==
    { <<>>, <<".", "m", "d">>, <<".", "o", "n", "y", "x">>, <<".", "O", "N", "Y", "X">>, <<".", "h", "t", "m", "l">>, <<".", "t", "x", "t">>, <<".", "j", "s", "o", "n">>, <<".", "k", "d", "l">> }

FilePaths == {d \o b \o e : d \in DirChoices, b \in BaseChoices, e \in ExtChoices}

TypeIdle == gPath = <<>> /\ gType = ""

TypeInit == gPath \in FilePaths /\ gType = ""

\* crawler.determineFileType(gPath)
DetermineFileType ==
    /\ gType = ""
    /\ gType' = determineFileType(gPath)
    /\ UNCHANGED <<gUrl, gRepos, gPath>>

-----------------------------------------------------------------------------
(* GitHubCrawler.crawlAllRepositories: the repositories of a batch of      *)
(* references are looked up, sorted and cut to repoLimit, and each is      *)
(* walked.  A reference is known by its position in the batch.             *)

MaxRefs == 3

DefaultMaxFilesPerRepo == 100
DefaultMaxFileSize == 50000

\* What "GET /repos/<owner>/<name>" does for a reference: the repository
\* with its stargazers_count, a body with a message, or fetchFromGitHub
\* throws (status not ok, network error).
LookupChoices ==
    { [kind |-> "ok", stars |-> 0],
      [kind |-> "ok", stars |-> 7],
      [kind |-> "message", stars |-> 0],
      [kind |-> "throws", stars |-> 0] }

\* limit of crawlGitHub as a caller sets it, and its default.
LimitChoices == {2, 20}

\* The options of the constructor: none, small ones, those of crawlGitHub.
\* 0 stands for an option that is not given.
OptionChoices ==
    { [maxFilesPerRepo |-> 0, maxFileSize |-> 0],
      [maxFilesPerRepo |-> 4, maxFileSize |-> 3],
      [maxFilesPerRepo |-> 50, maxFileSize |-> 100000] }

\* "this.maxFilesPerRepo = options.maxFilesPerRepo || 100"
maxFilesPerRepo(options) ==
    IF options.maxFilesPerRepo = 0 THEN DefaultMaxFilesPerRepo
    ELSE options.maxFilesPerRepo

\* "this.maxFileSize = options.maxFileSize || 50000"
maxFileSize(options) ==
    IF options.maxFileSize = 0 THEN DefaultMaxFileSize ELSE options.maxFileSize

\* The repository descriptor pushed for the i-th reference: the full one, or
\* the minimal one with stars 0 and fetchError (both branches, lines 554-591).
Descriptor(i, lookup) ==
    IF lookup.kind = "ok"
    THEN [ref |-> i, stars |-> lookup.stars, fetchError |-> FALSE]
    ELSE [ref |-> i, stars |-> 0, fetchError |-> TRUE]

\* The loop of getRepositoriesFromUrls over parsedRepos.
Descriptors(refs) == [i \in 1..Len(refs) |-> Descriptor(i, refs[i])]

\* repositories.sort((a, b) => (b.stars || 0) - (a.stars || 0)): stable.
RECURSIVE InsertByStars(_, _)
InsertByStars(s, x) ==
    IF s = <<>> THEN <<x>>
    ELSE IF Head(s).stars - x.stars < 0 THEN <<x>> \o s
    ELSE <<Head(s)>> \o InsertByStars(Tail(s), x)

RECURSIVE SortByStars(_)
SortByStars(s) ==
    IF s = <<>> THEN <<>>
    ELSE InsertByStars(SortByStars(Front(s)), s[Len(s)])

\* getRepositoriesFromUrls(urls, limit), after parseGitHubUrls(urls).
getRepositoriesFromUrls(refs, limit) ==
    Slice(SortByStars(Descriptors(refs)), limit)

\* tree.tree of a repository.  relevant: the path passes the filter of lines
\* 617-668; blobOk: the git/blobs request for the entry is answered.
TreeEntry(sha, type, relevant, size, blobOk) ==
    [sha |-> sha, type |-> type, relevant |-> relevant, size |-> size,
     blobOk |-> blobOk]

Tree ==
    << TreeEntry(1, "blob", TRUE, 3, TRUE),
       TreeEntry(2, "blob", TRUE, 4, TRUE),
       TreeEntry(3, "tree", TRUE, 0, TRUE),
       TreeEntry(4, "blob", FALSE, 1, TRUE),
       TreeEntry(5, "blob", TRUE, 50000, TRUE),
       TreeEntry(6, "blob", TRUE, 50001, TRUE),
       TreeEntry(7, "blob", TRUE, 1, FALSE),
       TreeEntry(8, "blob", TRUE, 100000, TRUE),
       TreeEntry(9, "blob", TRUE, 100001, TRUE) >>

\* tree.tree.filter(item => ...)
RECURSIVE FilterRelevant(_)
FilterRelevant(entries) ==
    IF entries = <<>> THEN <<>>
    ELSE (IF Head(entries).type = "blob" /\ Head(entries).relevant
          THEN <<Head(entries)>> ELSE <<>>)
         \o FilterRelevant(Tail(entries))

\* A mutant of TooLarge: no file is too large.
TooLargeNever(size, cap) == FALSE

\* "if (file.size > this.maxFileSize) continue"
TooLarge(size, cap) == size > cap

\* A mutant of BlobRequests: the first failed request ends the loop.
RECURSIVE BlobRequestsUntilFailure(_, _, _)
BlobRequestsUntilFailure(files, cap, repo) ==
    IF files = <<>> THEN <<>>
    ELSE IF TooLarge(Head(files).size, cap)
    THEN BlobRequestsUntilFailure(Tail(files), cap, repo)
    ELSE <<[repository |-> repo.ref, sha |-> Head(files).sha]>>
         \o (IF Head(files).blobOk
             THEN BlobRequestsUntilFailure(Tail(files), cap, repo)
             ELSE <<>>)

\* The git/blobs requests of the loop over relevantFiles.
RECURSIVE BlobRequests(_, _, _)
BlobRequests(files, cap, repo) ==
    IF files = <<>> THEN <<>>
    ELSE (IF TooLarge(Head(files).size, cap) THEN <<>>
          ELSE <<[repository |-> repo.ref, sha |-> Head(files).sha]>>)
         \o BlobRequests(Tail(files), cap, repo)

\* The files the loop pushes: a failed request is caught per file.
RECURSIVE ExtractedFiles(_, _, _)
ExtractedFiles(files, cap, repo) ==
    IF files = <<>> THEN <<>>
    ELSE (IF TooLarge(Head(files).size, cap) \/ ~Head(files).blobOk THEN <<>>
          ELSE <<[repository |-> repo.ref, sha |-> Head(files).sha,
                  size |-> Head(files).size]>>)
         \o ExtractedFiles(Tail(files), cap, repo)

\* relevantFiles of crawlRepository
relevantFiles(options) == Slice(FilterRelevant(Tree), maxFilesPerRepo(options))

WalkIdle ==
    /\ wRefs = <<>>
    /\ wLimit = 0
    /\ wOptions = [maxFilesPerRepo |-> 0, maxFileSize |-> 0]
    /\ wRepos = <<>>
    /\ wNext = 0
    /\ wBlobs = <<>>
    /\ wFiles = <<>>
    /\ wpc = "off"

\* A new GitHubCrawler and the arguments of crawlAllRepositories.
WalkInit ==
    /\ wRefs \in SeqsUpTo(LookupChoices, MaxRefs)
    /\ wLimit \in LimitChoices
    /\ wOptions \in OptionChoices
    /\ wRepos = <<>>
    /\ wNext = 0
    /\ wBlobs = <<>>
    /\ wFiles = <<>>
    /\ wpc = "idle"

\* crawlAllRepositories up to its loop: getRepositoriesFromUrls, and the
\* return when no repository came back.
GetRepositories ==
    /\ wpc = "idle"
    /\ wRepos' = getRepositoriesFromUrls(wRefs, wLimit)
    /\ wNext' = 1
    /\ wpc' = IF wRepos' = <<>> THEN "done" ELSE "crawling"
    /\ UNCHANGED <<wRefs, wLimit, wOptions, wBlobs, wFiles>>

\* One iteration of "for (const repo of repositories)": crawlRepository(repo),
\* whose git/trees request is answered or throws; after the last repository,
\* saveResults.
CrawlRepository ==
    /\ wpc = "crawling"
    /\ \E treeOk \in BOOLEAN :
         /\ wBlobs' = wBlobs \o
               (IF treeOk
                THEN BlobRequests(relevantFiles(wOptions),
                                  maxFileSize(wOptions), wRepos[wNext])
                ELSE <<>>)
         /\ wFiles' = wFiles \o
               (IF treeOk
                THEN ExtractedFiles(relevantFiles(wOptions),
                                    maxFileSize(wOptions), wRepos[wNext])
                ELSE <<>>)
    /\ wNext' = wNext + 1
    /\ wpc' = IF wNext' > Len(wRepos) THEN "done" ELSE "crawling"
    /\ UNCHANGED <<wRefs, wLimit, wOptions, wRepos>>

-----------------------------------------------------------------------------
(* The filter of crawlRepository over the items of tree.tree (lines        *)
(* 617-668).                                                                 *)

\* item.path of an item given by directory, base name and extension.
PathOf(item) == item.dir \o item.base \o item.ext

\* "tree.tree.filter(item => ...)": the value of the callback.
TreeFilter(item) ==
    LET path == toLowerCase(PathOf(item))
        Ends(x) == EndsWith(path, x)
        Has(x) == includes(path, x)
    IN  /\ item.type = "blob"
        /\ \/ path = <<"r", "e", "a", "d", "m", "e", ".", "m", "d">> \/ path = <<"r", "e", "a", "d", "m", "e", ".", "t", "x", "t">>
              \/ path = <<"r", "e", "a", "d", "m", "e">>
           \/ path = <<"l", "i", "c", "e", "n", "s", "e">> \/ path = <<"l", "i", "c", "e", "n", "s", "e", ".", "m", "d">>
              \/ path = <<"l", "i", "c", "e", "n", "s", "e", ".", "t", "x", "t">>
           \/ path = <<"c", "h", "a", "n", "g", "e", "l", "o", "g", ".", "m", "d">> \/ path = <<"c", "h", "a", "n", "g", "e", "l", "o", "g", ".", "t", "x", "t">>
           \/ path = <<"o", "n", "y", "x", ".", "p", "k", "g">> \/ Ends(<<".", "o", "n", "y", "x", ".", "p", "k", "g">>)
              \/ Ends(<<".", "k", "d", "l">>)
           \/ path = <<"p", "a", "c", "k", "a", "g", "e", ".", "j", "s", "o", "n">> \/ path = <<"m", "a", "n", "i", "f", "e", "s", "t", ".", "j", "s", "o", "n">>
           \/ Has(<<"d", "o", "c">>) /\ (Ends(<<".", "m", "d">>) \/ Ends(<<".", "t", "x", "t">>) \/ Ends(<<".", "h", "t", "m", "l">>))
           \/ Has(<<"e", "x", "a", "m", "p", "l", "e">>) /\ (Ends(<<".", "m", "d">>) \/ Ends(<<".", "o", "n", "y", "x">>) \/ Ends(<<".", "h", "t", "m", "l">>))
           \/ Ends(<<".", "o", "n", "y", "x">>)
           \/ Ends(<<".", "h", "t", "m", "l">>)
           \/ Ends(<<".", "t", "o", "m", "l">>) \/ Ends(<<".", "y", "a", "m", "l">>) \/ Ends(<<".", "y", "m", "l">>)

ItemDirs == { <<>>, <<"s", "r", "c", "/">> }
ItemBases ==
    { <<"R", "E", "A", "D", "M", "E">>, <<"R", "e", "a", "d", "m", "e">>,
      <<"L", "I", "C", "E", "N", "S", "E">>, <<"C", "H", "A", "N", "G", "E", "L", "O", "G">>,
      <<"m", "a", "i", "n">>, <<"n", "o", "t", "e", "s">> }
ItemExts == { <<>>, <<".", "m", "d">>, <<".", "t", "x", "t">>, <<".", "r", "s", "t">>, <<".", "o", "n", "y", "x">> }

TreeItems ==
    { [type |-> t, dir |-> d, base |-> b, ext |-> e] :
        t \in {"blob", "tree"}, d \in ItemDirs, b \in ItemBases, e \in ItemExts }

FilterIdle ==
    /\ fItem = [type |-> "tree", dir |-> <<>>, base |-> <<>>, ext |-> <<>>]
    /\ fKept = "off"

FilterInit == fItem \in TreeItems /\ fKept = ""

\* The filter callback is applied to the item.
FilterItem ==
    /\ fKept = ""
    /\ fKept' = IF TreeFilter(fItem) THEN "kept" ELSE "dropped"
    /\ UNCHANGED fItem

-----------------------------------------------------------------------------
(* run_onyx_code called again while an earlier call is still awaited: the   *)
(* HTTP server starts a handler per request (mcp-http.js 108-137) and       *)
(* runOnyxCode yields at each await (index.js 459-504).                      *)

MaxInvocations == 2
Invocations == 1..MaxInvocations

OverlapFilenames == { Undefined, <<"a.onyx">>, <<"b.onyx">> }
OverlapCodes == { <<"c">>, <<"d">> }

\* "const filePath = path.join(tempDir, filename)" with the default filename.
TempPath(filename) == JoinPath(TempDir, FilenameOr(filename, DefaultRunFilename))
OverlapPaths == { TempPath(f) : f \in OverlapFilenames }

\* The child has not read its file yet.
NotRun == <<"none">>

OverlapIdle ==
    /\ rCalls = <<>>
    /\ rTemp = [q \in OverlapPaths |-> NoFile]

\* MaxInvocations requests have arrived, none has written its file.
OverlapInit ==
    /\ rCalls \in [Invocations -> [code : OverlapCodes, filename : OverlapFilenames,
                                   pc : {"called"}, ran : {NotRun}]]
    /\ rTemp = [q \in OverlapPaths |-> NoFile]

\* "await fs.writeFile(filePath, code, 'utf8')": line 469.
WriteTempFile(i) ==
    /\ rCalls[i].pc = "called"
    /\ rTemp' = [rTemp EXCEPT ![TempPath(rCalls[i].filename)] = rCalls[i].code]
    /\ rCalls' = [rCalls EXCEPT ![i].pc = "written"]

\* spawn('onyx', ['run', filePath]) of executeOnyxFile (lines 609-612): the
\* child reads the file at filePath, or finds none.
ChildRuns(i) ==
    /\ rCalls[i].pc = "written"
    /\ rCalls' = [rCalls EXCEPT ![i].pc = "ran",
                                ![i].ran = rTemp[TempPath(rCalls[i].filename)]]
    /\ UNCHANGED rTemp

\* The promise of executeOnyxFile resolves and "await fs.unlink(filePath)"
\* follows, its error ignored (lines 474-479).
UnlinkTempFile(i) ==
    /\ rCalls[i].pc = "ran"
    /\ rTemp' = [rTemp EXCEPT ![TempPath(rCalls[i].filename)] = NoFile]
    /\ rCalls' = [rCalls EXCEPT ![i].pc = "answered"]

vars == <<crawlVars, normVars, linkVars, searchVars, toolVars, ghVars, walkVars, filterVars, overlapVars>>

Init == CrawlInit /\ NormIdle /\ LinkIdle /\ SearchIdle /\ ToolIdle /\ ParseIdle /\ TypeIdle /\ WalkIdle /\ FilterIdle /\ OverlapIdle

Next ==
    \/ Start /\ UNCHANGED <<normVars, linkVars, searchVars, toolVars, ghVars, walkVars, filterVars, overlapVars>>
    \/ StepSkip /\ UNCHANGED <<normVars, linkVars, searchVars, toolVars, ghVars, walkVars, filterVars, overlapVars>>
    \/ StepFetchFail /\ UNCHANGED <<normVars, linkVars, searchVars, toolVars, ghVars, walkVars, filterVars, overlapVars>>
    \/ StepFetchOk /\ UNCHANGED <<normVars, linkVars, searchVars, toolVars, ghVars, walkVars, filterVars, overlapVars>>
    \/ Flip /\ UNCHANGED <<normVars, linkVars, searchVars, toolVars, ghVars, walkVars, filterVars, overlapVars>>
    \/ NewRun /\ UNCHANGED <<normVars, linkVars, searchVars, toolVars, ghVars, walkVars, filterVars, overlapVars>>

\* The documentation crawler, run up to MaxRuns times.
Spec == Init /\ [][Next]_vars

\* normalizeUrl as a function of its argument.
NormSpecInit == CrawlIdle /\ NormInit /\ LinkIdle /\ SearchIdle /\ ToolIdle /\ ParseIdle /\ TypeIdle /\ WalkIdle /\ FilterIdle /\ OverlapIdle
NormNext == NormalizePair /\ UNCHANGED <<crawlVars, linkVars, searchVars, toolVars, ghVars, walkVars, filterVars, overlapVars>>
NormSpec == NormSpecInit /\ [][NormNext]_vars

\* findDocLinks as a function of the page.
\* One run of the documentation crawler over the long chapter.
CeilingSpecInit == CeilingInit /\ NormIdle /\ LinkIdle /\ SearchIdle /\ ToolIdle /\ ParseIdle /\ TypeIdle /\ WalkIdle /\ FilterIdle /\ OverlapIdle
CeilingNext ==
    \/ Start /\ UNCHANGED <<normVars, linkVars, searchVars, toolVars, ghVars, walkVars, filterVars, overlapVars>>
    \/ StepSkip /\ UNCHANGED <<normVars, linkVars, searchVars, toolVars, ghVars, walkVars, filterVars, overlapVars>>
    \/ StepFetchFail /\ UNCHANGED <<normVars, linkVars, searchVars, toolVars, ghVars, walkVars, filterVars, overlapVars>>
    \/ StepFetchOk /\ UNCHANGED <<normVars, linkVars, searchVars, toolVars, ghVars, walkVars, filterVars, overlapVars>>
CeilingSpec == CeilingSpecInit /\ [][CeilingNext]_vars

\* The steps of a run in which crawlPage returns: the steps of StepFetchOk,
\* told by processQueue's counter ("processedCount++", line 158).
PageCrawled ==
    /\ pc = "running"
    /\ Dequeued # NullUrl /\ ~AlreadyVisited(Dequeued, visited)
    /\ hostUp /\ PageExists(Dequeued)
    /\ processedCount' = processedCount + 1

\* A crawl started by crawl() goes on: every request of crawlPage returns or
\* fails within the timeout of the axios instance (line 28), and the delay
\* between two requests ends (line 171).
CrawlGoesOn ==
    /\ WF_vars(Start /\ UNCHANGED <<normVars, linkVars, searchVars, toolVars, ghVars, walkVars, filterVars, overlapVars>>)
    /\ WF_vars(StepSkip /\ UNCHANGED <<normVars, linkVars, searchVars, toolVars, ghVars, walkVars, filterVars, overlapVars>>)
    /\ WF_vars(StepFetchFail /\ UNCHANGED <<normVars, linkVars, searchVars, toolVars, ghVars, walkVars, filterVars, overlapVars>>)
    /\ WF_processedCount(PageCrawled)

\* The documentation crawler over the site or over the long chapter, run up
\* to MaxRuns times while the host stays up, its runs going on once started.
FairSpecInit == Init \/ CeilingSpecInit
FairNext ==
    \/ Start /\ UNCHANGED <<normVars, linkVars, searchVars, toolVars, ghVars, walkVars, filterVars, overlapVars>>
    \/ StepSkip /\ UNCHANGED <<normVars, linkVars, searchVars, toolVars, ghVars, walkVars, filterVars, overlapVars>>
    \/ StepFetchFail /\ UNCHANGED <<normVars, linkVars, searchVars, toolVars, ghVars, walkVars, filterVars, overlapVars>>
    \/ StepFetchOk /\ UNCHANGED <<normVars, linkVars, searchVars, toolVars, ghVars, walkVars, filterVars, overlapVars>>
    \/ NewRun /\ UNCHANGED <<normVars, linkVars, searchVars, toolVars, ghVars, walkVars, filterVars, overlapVars>>
FairSpec == FairSpecInit /\ [][FairNext]_vars /\ CrawlGoesOn

\* crawlAllRepositories over a batch of references.
WalkSpecInit == CrawlIdle /\ NormIdle /\ LinkIdle /\ SearchIdle /\ ToolIdle /\ ParseIdle /\ TypeIdle /\ WalkInit /\ FilterIdle /\ OverlapIdle
WalkNext ==
    \/ GetRepositories /\ UNCHANGED <<crawlVars, normVars, linkVars, searchVars, toolVars, ghVars, filterVars, overlapVars>>
    \/ CrawlRepository /\ UNCHANGED <<crawlVars, normVars, linkVars, searchVars, toolVars, ghVars, filterVars, overlapVars>>
WalkSpec == WalkSpecInit /\ [][WalkNext]_vars

\* The tree filter applied to one item.
FilterSpecInit == CrawlIdle /\ NormIdle /\ LinkIdle /\ SearchIdle /\ ToolIdle /\ ParseIdle /\ TypeIdle /\ WalkIdle /\ FilterInit /\ OverlapIdle
FilterNext == FilterItem /\ UNCHANGED <<crawlVars, normVars, linkVars, searchVars, toolVars, ghVars, walkVars, overlapVars>>
FilterSpec == FilterSpecInit /\ [][FilterNext]_vars

\* MaxInvocations calls of run_onyx_code in flight at the same time.
OverlapSpecInit == CrawlIdle /\ NormIdle /\ LinkIdle /\ SearchIdle /\ ToolIdle /\ ParseIdle /\ TypeIdle /\ WalkIdle /\ FilterIdle /\ OverlapInit
OverlapNext ==
    \/ (\E i \in Invocations : WriteTempFile(i))
          /\ UNCHANGED <<crawlVars, normVars, linkVars, searchVars, toolVars, ghVars, walkVars, filterVars>>
    \/ (\E i \in Invocations : ChildRuns(i))
          /\ UNCHANGED <<crawlVars, normVars, linkVars, searchVars, toolVars, ghVars, walkVars, filterVars>>
    \/ (\E i \in Invocations : UnlinkTempFile(i))
          /\ UNCHANGED <<crawlVars, normVars, linkVars, searchVars, toolVars, ghVars, walkVars, filterVars>>
OverlapSpec == OverlapSpecInit /\ [][OverlapNext]_vars

LinkSpecInit == CrawlIdle /\ NormIdle /\ LinkInit /\ SearchIdle /\ ToolIdle /\ ParseIdle /\ TypeIdle /\ WalkIdle /\ FilterIdle /\ OverlapIdle
LinkNext == FindLinks /\ UNCHANGED <<crawlVars, normVars, searchVars, toolVars, ghVars, walkVars, filterVars, overlapVars>>
LinkSpec == LinkSpecInit /\ [][LinkNext]_vars

\* A SearchEngine answering up to MaxCalls queries.
\* searchDocs over the corpus about allocators.
BookSpecInit == CrawlIdle /\ NormIdle /\ LinkIdle /\ BookInit /\ ToolIdle /\ ParseIdle /\ TypeIdle /\ WalkIdle /\ FilterIdle /\ OverlapIdle
BookNext == CallSearchDocs /\ UNCHANGED <<crawlVars, normVars, linkVars, toolVars, ghVars, walkVars, filterVars, overlapVars>>
BookSpec == BookSpecInit /\ [][BookNext]_vars

\* searchGitHubExamples over a topic object.
TopicSpecInit == CrawlIdle /\ NormIdle /\ LinkIdle /\ TopicInit /\ ToolIdle /\ ParseIdle /\ TypeIdle /\ WalkIdle /\ FilterIdle /\ OverlapIdle
TopicNext ==
    SearchGitHubExamplesCall(sQuery)
        /\ UNCHANGED <<crawlVars, normVars, linkVars, toolVars, ghVars, walkVars, filterVars, overlapVars>>
TopicSpec == TopicSpecInit /\ [][TopicNext]_vars

SearchSpecInit == CrawlIdle /\ NormIdle /\ LinkIdle /\ SearchInit /\ ToolIdle /\ ParseIdle /\ TypeIdle /\ WalkIdle /\ FilterIdle /\ OverlapIdle
SearchNext ==
    \/ CallSearchDocs /\ UNCHANGED <<crawlVars, normVars, linkVars, toolVars, ghVars, walkVars, filterVars, overlapVars>>
    \/ CallSearchAll /\ UNCHANGED <<crawlVars, normVars, linkVars, toolVars, ghVars, walkVars, filterVars, overlapVars>>
SearchSpec == SearchSpecInit /\ [][SearchNext]_vars

\* A SearchEngine answering up to MaxCalls queries of any kind while the
\* corpus files change under it.
EngineSpecInit == CrawlIdle /\ NormIdle /\ LinkIdle /\ EngineInit /\ ToolIdle /\ ParseIdle /\ TypeIdle /\ WalkIdle /\ FilterIdle /\ OverlapIdle
EngineNext ==
    \/ (\E q \in {sQuery, Undefined} : SearchDocsCall(q))
          /\ UNCHANGED <<crawlVars, normVars, linkVars, toolVars, ghVars, walkVars, filterVars, overlapVars>>
    \/ (\E q \in {sQuery, Undefined} : SearchGitHubExamplesCall(q))
          /\ UNCHANGED <<crawlVars, normVars, linkVars, toolVars, ghVars, walkVars, filterVars, overlapVars>>
    \/ (\E q \in {sQuery, Undefined} : GetOnyxFunctionExamplesCall(q))
          /\ UNCHANGED <<crawlVars, normVars, linkVars, toolVars, ghVars, walkVars, filterVars, overlapVars>>
    \/ (\E q \in {sQuery, Undefined} : GetOnyxStructExamplesCall(q))
          /\ UNCHANGED <<crawlVars, normVars, linkVars, toolVars, ghVars, walkVars, filterVars, overlapVars>>
    \/ CallSearchAll /\ UNCHANGED <<crawlVars, normVars, linkVars, toolVars, ghVars, walkVars, filterVars, overlapVars>>
    \/ Rewrite /\ UNCHANGED <<crawlVars, normVars, linkVars, toolVars, ghVars, walkVars, filterVars, overlapVars>>
EngineSpec == EngineSpecInit /\ [][EngineNext]_vars

\* The MCP server answering up to MaxCalls tool calls, one after another.
ToolSpecInit == CrawlIdle /\ NormIdle /\ LinkIdle /\ ToolInit /\ ParseIdle /\ TypeIdle /\ WalkIdle /\ FilterIdle /\ OverlapIdle
ToolNext ==
    \/ (\E q \in {sQuery, Undefined} :
            QueryTool("search_onyx_docs", SearchDocsCall(q)))
          /\ UNCHANGED <<crawlVars, normVars, linkVars, ghVars, walkVars, filterVars, overlapVars>>
    \/ (\E q \in {sQuery, Undefined} :
            QueryTool("search_github_examples", SearchGitHubExamplesCall(q)))
          /\ UNCHANGED <<crawlVars, normVars, linkVars, ghVars, walkVars, filterVars, overlapVars>>
    \/ (\E q \in {sQuery, Undefined} :
            QueryTool("get_onyx_functions", GetOnyxFunctionExamplesCall(q)))
          /\ UNCHANGED <<crawlVars, normVars, linkVars, ghVars, walkVars, filterVars, overlapVars>>
    \/ (\E q \in {sQuery, Undefined} :
            QueryTool("get_onyx_structs", GetOnyxStructExamplesCall(q)))
          /\ UNCHANGED <<crawlVars, normVars, linkVars, ghVars, walkVars, filterVars, overlapVars>>
    \/ QueryTool("search_all_sources", CallSearchAll)
          /\ UNCHANGED <<crawlVars, normVars, linkVars, ghVars, walkVars, filterVars, overlapVars>>
    \/ ListGitHubRepos /\ UNCHANGED <<crawlVars, normVars, linkVars, ghVars, walkVars, filterVars, overlapVars>>
    \/ UnknownTool /\ UNCHANGED <<crawlVars, normVars, linkVars, ghVars, walkVars, filterVars, overlapVars>>
    \/ (\E code \in CodeChoices, f \in FilenameChoices \cup {Undefined},
           t \in TimeoutChoices : RunOnyxCode(code, f, t))
          /\ UNCHANGED <<crawlVars, normVars, linkVars, ghVars, walkVars, filterVars, overlapVars>>
    \/ (\E code \in CodeChoices, f \in FilenameChoices \cup {Undefined},
           d \in DirectoryChoices \cup {Undefined}, t \in TimeoutChoices :
            BuildOnyxCode(code, f, d, t))
          /\ UNCHANGED <<crawlVars, normVars, linkVars, ghVars, walkVars, filterVars, overlapVars>>
    \/ (\E w \in FilenameChoices, d \in DirectoryChoices \cup {Undefined},
           t \in TimeoutChoices : RunWasm(w, d, t))
          /\ UNCHANGED <<crawlVars, normVars, linkVars, ghVars, walkVars, filterVars, overlapVars>>
    \/ (\E d \in DirectoryChoices \cup {Undefined}, t \in TimeoutChoices :
            OnyxPkgBuild(d, t))
          /\ UNCHANGED <<crawlVars, normVars, linkVars, ghVars, walkVars, filterVars, overlapVars>>
    \/ TimerFires /\ UNCHANGED <<crawlVars, normVars, linkVars, ghVars, walkVars, filterVars, overlapVars>>
    \/ (\E code \in {0, 1} : ChildClose(code))
          /\ UNCHANGED <<crawlVars, normVars, linkVars, ghVars, walkVars, filterVars, overlapVars>>
    \/ ChildError /\ UNCHANGED <<crawlVars, normVars, linkVars, ghVars, walkVars, filterVars, overlapVars>>
    \/ Tick /\ UNCHANGED <<crawlVars, normVars, linkVars, ghVars, walkVars, filterVars, overlapVars>>
    \/ (\E net \in FetchOutcomes : BridgeCall(net))
          /\ UNCHANGED <<crawlVars, normVars, linkVars, ghVars, walkVars, filterVars, overlapVars>>
ToolSpec == ToolSpecInit /\ [][ToolNext]_vars

\* parseGitHubUrls as a function of the text it is given.
ParseSpecInit ==
    CrawlIdle /\ NormIdle /\ LinkIdle /\ SearchIdle /\ ToolIdle /\ ParseInit /\ TypeIdle /\ WalkIdle /\ FilterIdle /\ OverlapIdle
ParseNext ==
    ParseGitHubUrls /\ UNCHANGED <<crawlVars, normVars, linkVars, searchVars, toolVars, walkVars, filterVars, overlapVars>>
ParseSpec == ParseSpecInit /\ [][ParseNext]_vars

\* determineFileType as a function of the path.
TypeSpecInit ==
    CrawlIdle /\ NormIdle /\ LinkIdle /\ SearchIdle /\ ToolIdle /\ ParseIdle /\ TypeInit /\ WalkIdle /\ FilterIdle /\ OverlapIdle
TypeNext ==
    DetermineFileType /\ UNCHANGED <<crawlVars, normVars, linkVars, searchVars, toolVars, walkVars, filterVars, overlapVars>>
TypeSpec == TypeSpecInit /\ [][TypeNext]_vars

-----------------------------------------------------------------------------
(* Properties of a crawl run, checked under Spec. *)

DocUrls == {docs[i].url : i \in 1..Len(docs)}

\* The URLs requested so far, and the number of requests of one URL.
Fetched == {fetchLog[i].url : i \in 1..Len(fetchLog)}
TimesFetched(u) == Cardinality({i \in 1..Len(fetchLog) : fetchLog[i].url = u})

\* The number of occurrences of u in the sequence q.
Count(q, u) == Cardinality({i \in 1..Len(q) : q[i] = u})

\* The number of failed requests at the end of the log.
RECURSIVE TrailingFailures(_)
TrailingFailures(log) ==
    IF log = <<>> \/ log[Len(log)].ok THEN 0
    ELSE 1 + TrailingFailures(Front(log))

\* C1: in every state of a crawl run the url of every Document produced so
\* far is a member of Visited, and Visited holds each URL once: it has as
\* many members as pages were added to it (one per request), each of them a
\* URL in normalized form (no fragment).
C1_DocsInVisited ==
    /\ DocUrls \subseteq visited
    /\ Cardinality(visited) = Len(fetchLog)
    /\ \A u \in visited : u.kind = "url" /\ u.frag = ""

C1_Witness ==
    /\ pc = "running"
    /\ Len(docs) >= 2
    /\ \E u \in visited : u \notin DocUrls

\* C2: within one run no URL is requested more than once: a dequeued URL that
\* is already in Visited is skipped without a request, and a URL whose request
\* failed is not requested again.
C2_NoRefetch ==
    /\ [](\A u \in Fetched : TimesFetched(u) = 1)
    /\ [][pc = "running" /\ Dequeued \in visited => fetchLog' = fetchLog]_vars

C2_Witness ==
    /\ pc = "running"
    /\ linkQueue # <<>>
    /\ Dequeued \in visited
    /\ \E i \in 1..Len(fetchLog) : ~fetchLog[i].ok /\ fetchLog[i].url = Dequeued

\* C3: once a URL has been visited in a run, no step of that run appends it
\* to the frontier again.
C3_VisitedNotRequeued ==
    [][\A u \in visited' : Count(linkQueue', u) <= Count(linkQueue, u)]_vars

\* A page has just been crawled that links to pages visited before it.
C3_Witness ==
    /\ pc = "running"
    /\ fetchLog # <<>>
    /\ fetchLog[Len(fetchLog)].ok
    /\ \E l \in Range(findDocLinks(PageHrefs(fetchLog[Len(fetchLog)].url),
                                   fetchLog[Len(fetchLog)].url)) :
          normalizeUrl(l) \in visited \ {fetchLog[Len(fetchLog)].url}

\* C4: the run halts as soon as maxConsecutiveErrors (5) requests in a row
\* have failed: then the loop has ended with the break taken and no request
\* follows, so no sixth failure in a row is ever seen; consecutiveErrors is
\* the number of failures since the last page that succeeded.
C4_CircuitBreaker ==
    /\ consecutiveErrors = TrailingFailures(fetchLog)
    /\ TrailingFailures(fetchLog) <= maxConsecutiveErrors
    /\ TrailingFailures(fetchLog) = maxConsecutiveErrors => pc = "done" /\ tripped
    /\ \A i \in 1..Len(fetchLog) :
          (i + maxConsecutiveErrors - 1 < Len(fetchLog))
             => \E j \in i..(i + maxConsecutiveErrors - 1) : fetchLog[j].ok

\* The breaker trips with URLs left in the frontier, after a failure that an
\* intervening success had reset.
C4_Witness ==
    /\ tripped
    /\ pc = "done"
    /\ linkQueue # <<>>
    /\ \E i, j \in 1..Len(fetchLog) : i < j /\ ~fetchLog[i].ok /\ fetchLog[j].ok

\* C5: when a run that started processing its frontier has ended, normally
\* or by the circuit breaker, the persisted documents are the Documents
\* accumulated by the run and Crawl Stats is the record of this run.
C5_PersistedAtEnd ==
    (pc = "done" /\ baseUrls # <<>>) =>
        /\ disk.present
        /\ disk.docs = docs
        /\ disk.stats = [totalDocs |-> Len(docs),
                         urlsCrawled |-> Cardinality(visited),
                         crawlDate |-> today,
                         baseUrls |-> baseUrls]

\* An aborted second run has replaced the files of the first by its partial
\* results.
C5_Witness ==
    /\ pc = "done"
    /\ tripped
    /\ docs # <<>>
    /\ disk.docs = docs
    /\ diskAtStart.present
    /\ disk # diskAtStart

\* C6: a run without force whose start URLs were all crawled by the last
\* crawl, less than RECRAWL_THRESHOLD_DAYS days ago, ends with nothing
\* enqueued, dequeued or fetched and with the persisted files unchanged.
SeedsFresh ==
    /\ prevCrawl.any
    /\ today - prevCrawl.day < RECRAWL_THRESHOLD_DAYS
    /\ Range(startUrls) \subseteq prevCrawl.seeds

C6_FreshRerunIsNoOp ==
    (pc # "idle" /\ SeedsFresh /\ ~forceRecrawl) =>
        /\ pc = "done"
        /\ linkQueue = <<>>
        /\ fetchLog = <<>>
        /\ disk = diskAtStart

\* The start URLs of this run that the last crawl had as start URLs less
\* than RECRAWL_THRESHOLD_DAYS days ago, when the run is not forced.
FreshSeeds ==
    IF pc # "idle" /\ ~forceRecrawl /\ prevCrawl.any
       /\ today - prevCrawl.day < RECRAWL_THRESHOLD_DAYS
    THEN Range(startUrls) \cap prevCrawl.seeds
    ELSE {}

\* C24: a start URL that was crawled within the freshness threshold is, in
\* a run without force, never in the frontier and never requested, also
\* when other start URLs of the run are crawled.
C24_FreshSeedSkipped ==
    \A u \in FreshSeeds :
        /\ normalizeUrl(u) \notin Range(linkQueue)
        /\ normalizeUrl(u) \notin Fetched
        /\ normalizeUrl(normalizeUrl(u)) \notin Fetched

\* The start URLs the finished run skipped as recently crawled (lines 83-99).
SkippedSeeds ==
    IF forceRecrawl THEN {} ELSE checkRecentCrawls(startUrls, diskAtStart, today)

\* C40: after a run that skipped some start URLs as fresh and crawled
\* others, the Documents the earlier run persisted for the skipped start
\* URLs are still in the persisted corpus.
C40_SkippedSeedDocsKept ==
    (pc = "done" /\ SkippedSeeds # {} /\ crawledSeeds # {}) =>
        \A u \in SkippedSeeds :
            \A i \in 1..Len(diskAtStart.docs) :
                diskAtStart.docs[i].url = normalizeUrl(u) =>
                    \E j \in 1..Len(disk.docs) :
                        disk.docs[j].url = diskAtStart.docs[i].url

\* C39: every crawl run terminates: a run that crawl() has started reaches
\* the end of the processing loop and saveDocs.
C39_RunTerminates == (pc \in {"idle", "running"}) ~> (pc = "done")

\* A run ended at the ceiling with URLs left in the frontier, and its
\* Documents were persisted.
C39_Witness ==
    /\ pc = "done"
    /\ processedCount = MAX_PAGES
    /\ linkQueue # <<>>
    /\ disk.present
    /\ disk.docs = docs

\* C27: the frontier never holds the same normalized URL twice, whether its
\* entries are seeds or discovered links.
C27_FrontierNoDuplicates ==
    \A i, j \in 1..Len(linkQueue) : linkQueue[i] = linkQueue[j] => i = j

\* A request of the running crawl has just failed.
FetchFailed ==
    /\ pc = "running"
    /\ Len(fetchLog') = Len(fetchLog) + 1
    /\ ~fetchLog'[Len(fetchLog')].ok

\* C29: a failed request that does not trip the circuit breaker drops only
\* its page: no Document is added for it, then or later, the rest of the
\* frontier stays queued, and the run goes on while entries remain.
C29_FailureDropsOnlyThatPage ==
    /\ [][ (FetchFailed /\ ~tripped') =>
              /\ docs' = docs
              /\ linkQueue' = Tail(linkQueue)
              /\ (linkQueue' # <<>> => pc' = "running") ]_vars
    /\ [](\A i \in 1..Len(fetchLog) :
              ~fetchLog[i].ok => fetchLog[i].url \notin DocUrls)

\* A request failed, the breaker stayed closed, and the next entry of the
\* frontier was fetched.
C29_Witness ==
    /\ ~tripped
    /\ \E i \in 1..(Len(fetchLog) - 1) : ~fetchLog[i].ok /\ fetchLog[i + 1].ok

\* The page u has just been fetched successfully.
FetchedOk(u) ==
    /\ pc = "running"
    /\ fetchLog' = Append(fetchLog, [url |-> u, ok |-> TRUE])

\* The link, as crawlPage enqueues it, of the i-th <a href> of the page u.
LinkAt(u, i) == normalizeUrl(normalizeUrl(Resolve(PageHrefs(u)[i], u)))

\* C28: links are discovered before extractContent removes anything: when a
\* page is fetched, each link findDocLinks accepts that lies inside a removed
\* region (nav, footer, table of contents, sidebar) is in the frontier after
\* the step, unless it was visited already.
C28_LinksBeforeCleanup ==
    [][ \A u \in visited' : FetchedOk(u) =>
           \A i \in PageBoilerplate(u) :
               LinkAccepted(PageHrefs(u)[i], u) =>
                   LinkAt(u, i) \in Range(linkQueue') \cup visited' ]_vars

\* Overview.html was fetched and /book/e, which the page links to from its
\* <nav> only, is in the frontier.
C28_Witness ==
    /\ \E k \in 1..Len(fetchLog) : fetchLog[k] = [url |-> Overview, ok |-> TRUE]
    /\ Book("e") \in Range(linkQueue)
    /\ \A i \in 1..Len(OverviewHrefs) :
          LinkAt(Overview, i) = Book("e") => i \in PageBoilerplate(Overview)
    /\ \A k \in 1..Len(fetchLog) : fetchLog[k].url = Overview

-----------------------------------------------------------------------------
(* Properties of processQueue at the page ceiling, checked under           *)
(* CeilingSpec.                                                             *)

\* The run is over and URLs are left in the frontier.
EndedEarly == pc = "done" /\ linkQueue # <<>>

\* C23 as stated: whenever a run ends with URLs still in the frontier, the
\* circuit breaker has tripped.
C23_OnlyBreakerStopsEarly == EndedEarly => tripped

\* C23, amended: whenever a run ends with URLs still in the frontier, the
\* circuit breaker has tripped or MAX_PAGES pages have been processed.
C23_BreakerOrCeilingStopsEarly ==
    EndedEarly => (tripped \/ processedCount >= MAX_PAGES)

\* A run ended at the ceiling, with URLs in the frontier and the breaker
\* closed.
C23_Witness == EndedEarly /\ ~tripped /\ processedCount = MAX_PAGES

\* The number of pages the run has fetched: requests that were answered.
PagesFetched == Cardinality({i \in 1..Len(fetchLog) : fetchLog[i].ok})

\* An iteration of processQueue dequeued a URL and requested nothing.
SkippedOne ==
    /\ pc = "running"
    /\ linkQueue' = Tail(linkQueue)
    /\ fetchLog' = fetchLog

-----------------------------------------------------------------------------
(* Properties of normalizeUrl, checked under NormSpec. *)

\* q2 is a reordering of the parameters of q1.
IsPermutation(q1, q2) ==
    /\ Len(q1) = Len(q2)
    /\ \A p \in Range(q1) \cup Range(q2) : Count(q1, p) = Count(q2, p)

\* The URLs a and b differ at most by their fragment, by the order of their
\* query parameters and by one trailing slash on a path other than the root.
DifferOnlyByFragOrderSlash(a, b) ==
    /\ a.kind = "url" /\ b.kind = "url"
    /\ a.scheme = b.scheme /\ a.host = b.host /\ a.segs = b.segs
    /\ IsPermutation(a.query, b.query)
    /\ \/ a.slashes = b.slashes
       \/ a.segs # <<>> /\ (a.slashes = b.slashes + 1 \/ b.slashes = a.slashes + 1)

\* C7: two URLs that differ only by fragment, by the order of their query
\* parameters or by a single trailing slash on a non-root path have the same
\* normalizeUrl output.
C7_NormalizeIdentifies ==
    (nDone /\ DifferOnlyByFragOrderSlash(nA, nB)) => oA = oB

\* C36: normalizeUrl is idempotent: normalizing a URL that normalizeUrl
\* returned gives that URL back.
C36_NormalizeIdempotent ==
    (nDone /\ oA # NullUrl) => normalizeUrl(oA) = oA

-----------------------------------------------------------------------------
(* Properties of findDocLinks, checked under LinkSpec. *)

\* C8: every link findDocLinks returns is an http(s) URL on the allowed host
\* whose path starts with /book/ or /packages/ and matches no exclusion.
C8_AllowList ==
    lDone => \A i \in 1..Len(lLinks) :
                /\ lLinks[i].scheme \in {"http", "https"}
                /\ InScope(lLinks[i])

-----------------------------------------------------------------------------
(* Properties of searchDocs, checked under BookSpec. *)

\* searchDocs has returned its result object.
DocsSearched == sOut.op = "searchDocs" /\ ~sOut.val.error

\* The documents of the corpus whose title and content both contain the
\* query, case-insensitively.
TitleAndContentMatch ==
    { d \in Range(store["docs"].data) :
        /\ includes(toLowerCase(d.title), toLowerCase(sQuery))
        /\ includes(toLowerCase(d.content), toLowerCase(sQuery)) }

\* The result r is the document d with the title and the content
\* contribution in its score and the query, case-insensitively, in its
\* snippet.
ReturnedAs(d, r) ==
    /\ r.url = d.url
    /\ r.score > 0
    /\ r.score >= 10 + 1
    /\ includes(toLowerCase(r.snippet), toLowerCase(sQuery))

-----------------------------------------------------------------------------
(* Properties of the GitHubCrawler, checked under WalkSpec. *)

\* The tree entry with the given sha.
EntryOf(sha) == CHOOSE e \in Range(Tree) : e.sha = sha

\* C21: every file the walker produces has a size of at most maxFileSize,
\* and no git/blobs request is made for a tree entry larger than that.
C21_FilesWithinCap ==
    /\ \A i \in 1..Len(wFiles) : wFiles[i].size <= maxFileSize(wOptions)
    /\ \A i \in 1..Len(wBlobs) :
          EntryOf(wBlobs[i].sha).size <= maxFileSize(wOptions)

\* With the default cap, a repository was walked whose tree holds a file of
\* exactly 50000 bytes, which was extracted, and one of 50001 bytes within
\* the first maxFilesPerRepo relevant files, which was not requested.
C21_Witness ==
    /\ wpc = "done"
    /\ wOptions.maxFileSize = 0
    /\ \E i \in 1..Len(wFiles) : wFiles[i].size = DefaultMaxFileSize
    /\ \E j \in 1..Len(relevantFiles(wOptions)) :
          /\ relevantFiles(wOptions)[j].size = DefaultMaxFileSize + 1
          /\ \A i \in 1..Len(wBlobs) :
                wBlobs[i].sha # relevantFiles(wOptions)[j].sha

\* The git/blobs requests made for the repository with the given reference.
RequestedOf(ref) == {wBlobs[i].sha : i \in {k \in 1..Len(wBlobs) : wBlobs[k].repository = ref}}

\* The files extracted from it.
ExtractedOf(ref) == {wFiles[i].sha : i \in {k \in 1..Len(wFiles) : wFiles[k].repository = ref}}

\* The filtered files of a repository that are within the size cap.
Wanted ==
    { f \in Range(relevantFiles(wOptions)) : f.size <= maxFileSize(wOptions) }

\* C33: a failed request for one file drops that file only: in a repository
\* whose files were requested at all, every filtered file within the cap was
\* requested, and extracted unless its own request failed; and a run that
\* ended has walked every repository of the batch, whichever trees or files
\* could not be fetched.
C33_FailureDropsOneFile ==
    /\ \A j \in 1..Len(wRepos) :
          RequestedOf(wRepos[j].ref) # {} =>
              /\ RequestedOf(wRepos[j].ref) = {f.sha : f \in Wanted}
              /\ ExtractedOf(wRepos[j].ref)
                    = {f.sha : f \in {g \in Wanted : g.blobOk}}
    /\ wpc = "done" /\ wRepos # <<>> => wNext = Len(wRepos) + 1

\* A finished run: in one repository the request for the file with sha 7
\* failed and the file with sha 8, next in the tree, was extracted; a
\* repository walked before it gave no files at all.
C33_Witness ==
    /\ wpc = "done"
    /\ \E j, k \in 1..Len(wRepos) :
          /\ j < k
          /\ RequestedOf(wRepos[j].ref) = {}
          /\ 7 \in RequestedOf(wRepos[k].ref)
          /\ 7 \notin ExtractedOf(wRepos[k].ref)
          /\ 8 \in ExtractedOf(wRepos[k].ref)

\* C22: a reference whose metadata lookup fails is in the batch
\* getRepositoriesFromUrls returns, as a descriptor with fetchError, and at
\* the end of the run it has been crawled like the others.
C22_FailedLookupKept ==
    wpc \in {"crawling", "done"} =>
        \A i \in 1..Len(wRefs) :
            wRefs[i].kind # "ok" =>
                \E j \in 1..Len(wRepos) :
                    /\ wRepos[j].ref = i
                    /\ wRepos[j].fetchError
                    /\ wpc = "done" => wNext > j

-----------------------------------------------------------------------------
(* Properties of the tree filter, checked under FilterSpec. *)

\* C34: a file at the root of the repository whose name without its
\* extension is README, LICENSE or CHANGELOG, in any case, passes the filter
\* whatever its extension, and without one.
C34_ReadmeLikeAlwaysKept ==
    ( /\ fKept # ""
      /\ fItem.type = "blob"
      /\ fItem.dir = <<>>
      /\ toLowerCase(fItem.base) \in { <<"r", "e", "a", "d", "m", "e">>, <<"l", "i", "c", "e", "n", "s", "e">>, <<"c", "h", "a", "n", "g", "e", "l", "o", "g">> } )
    => fKept = "kept"

-----------------------------------------------------------------------------
(* Properties of searchGitHubExamples, checked under TopicSpec. *)

\* searchGitHubExamples has returned its result object.
ExamplesSearched == sOut.op = "searchGitHubExamples" /\ ~sOut.val.error

\* The topic object of the data directory.
KnownTopics == store["examplesByTopic"].data

\* The topic name contains the query or the query contains it,
\* case-insensitively.
NameMatches(name, q) ==
    \/ includes(toLowerCase(name), toLowerCase(q))
    \/ includes(toLowerCase(q), toLowerCase(name))

\* C32: searchGitHubExamples returns at most limit examples, each one an
\* example of a topic whose name matches the query in one of the two
\* directions; when no topic matches it returns no examples and the sorted
\* list of all topic names.
C32_ExamplesOfMatchingTopics ==
    ExamplesSearched =>
        /\ Len(sOut.val.examples) <= sLimit
        /\ \A i \in 1..Len(sOut.val.examples) :
              \E k \in 1..Len(KnownTopics) :
                  /\ NameMatches(KnownTopics[k].topic, sQuery)
                  /\ sOut.val.examples[i] \in Range(KnownTopics[k].examples)
        /\ (\A k \in 1..Len(KnownTopics) : ~NameMatches(KnownTopics[k].topic, sQuery))
              => /\ sOut.val.examples = <<>>
                 /\ Len(sOut.val.availableTopics) = Len(KnownTopics)
                 /\ Range(sOut.val.availableTopics)
                       = {KnownTopics[k].topic : k \in 1..Len(KnownTopics)}
                 /\ \A i, j \in 1..Len(sOut.val.availableTopics) :
                       i < j => StrLess(sOut.val.availableTopics[i],
                                        sOut.val.availableTopics[j])

\* The query "Ab" over the topics "ab", "a" and "Bb" with limit 2: one
\* example of "ab", whose name the query equals but for the case, and one of
\* "a", whose name the query contains.
C32_Witness ==
    /\ ExamplesSearched
    /\ sQuery = <<"A", "b">>
    /\ sLimit = 2
    /\ TopicsOf(KnownTopics) = << <<"a", "b">>, <<"a">>, <<"B", "b">> >>
    /\ sOut.val.examples = <<[url |-> 45], [url |-> 41]>>

\* The query "d" matched none of three topics, which were listed in order.
C32_NoMatchWitness ==
    /\ ExamplesSearched
    /\ sQuery = <<"d">>
    /\ sOut.val.examples = <<>>
    /\ sOut.val.availableTopics = << <<"B", "b">>, <<"a">>, <<"a", "b">> >>

-----------------------------------------------------------------------------
(* Properties of the SearchEngine, checked under SearchSpec. *)

\* C9: searchDocs returns no document with a score <= 0, and its results are
\* sorted non-increasing by score.
C9_PositiveSorted ==
    (sOut.op = "searchDocs") =>
        /\ \A i \in 1..Len(sOut.val.results) : sOut.val.results[i].score > 0
        /\ \A i, j \in 1..Len(sOut.val.results) :
              i < j => sOut.val.results[i].score >= sOut.val.results[j].score

\* searchDocs has returned documents of different scores from a corpus that
\* also holds a document that does not match.
C9_Witness ==
    /\ sOut.op = "searchDocs"
    /\ Len(sOut.val.results) >= 2
    /\ sOut.val.results[1].score > sOut.val.results[2].score
    /\ sOut.val.totalFound < Len(store.docs.data)

\* The score of three fixed contributions: 10 if the title contains the
\* query, 5 if at least one heading does, 1 if the content does.
ThreeContributions(d, q) ==
    (IF includes(toLowerCase(d.title), toLowerCase(q)) THEN 10 ELSE 0)
    + (IF \E k \in 1..Len(d.headings) :
             includes(toLowerCase(d.headings[k].text), toLowerCase(q))
       THEN 5 ELSE 0)
    + (IF includes(toLowerCase(d.content), toLowerCase(q)) THEN 1 ELSE 0)

\* C31: the score searchDocs reports for a document is the sum of the title
\* weight, the heading weight counted once however many headings match, and
\* the content weight.
C31_HeadingWeightOnce ==
    DocsSearched =>
        \A i \in 1..Len(sOut.val.results) :
            \E d \in Range(store.docs.data) :
                /\ d.url = sOut.val.results[i].url
                /\ sOut.val.results[i].score = ThreeContributions(d, sQuery)

\* C10: searchAll(query, ['docs', 'github'], limit) returns at most limit
\* combined results.
C10_AtMostLimit ==
    (sOut.op = "searchAll" /\ sOut.val.sources = <<"docs", "github">>) =>
        Len(sOut.val.combinedResults) <= sLimit

\* Each source alone has more than limit matches.
C10_Witness ==
    /\ sOut.op = "searchAll"
    /\ sOut.val.sources = <<"docs", "github">>
    /\ sLimit >= 1
    /\ Len(sOut.val.resultsBySources) = 2
    /\ \A k \in 1..2 : sOut.val.resultsBySources[k].totalFound > sLimit
    /\ Len(sOut.val.combinedResults) = sLimit

\* The urls and scores of all the matches of the query in the corpora of the
\* sources searchAll was asked for.
AllMatches ==
    (IF "docs" \in Range(sOut.val.sources)
     THEN { [url |-> r.url, score |-> r.score] :
              r \in Range(ScoreDocs(store.docs.data, toLowerCase(sQuery))) }
     ELSE {})
    \cup (IF "github" \in Range(sOut.val.sources)
          THEN { [url |-> r.url, score |-> r.score] :
                   r \in Range(ScoreFiles(store.githubFiles.data, toLowerCase(sQuery))) }
          ELSE {})

Combined ==
    { [url |-> r.url, score |-> r.score] : r \in Range(sOut.val.combinedResults) }

\* C35: with both corpora on disk, combinedResults of searchAll is the
\* top-limit selection over all the matches of the sources asked for: no
\* match left out scores strictly higher than one that is included, and the
\* list is shorter than limit only when there are fewer than limit matches.
C35_CombinedIsTopLimit ==
    (sOut.op = "searchAll" /\ store.docs.present /\ store.githubFiles.present) =>
        /\ Combined \subseteq AllMatches
        /\ \A m \in AllMatches \ Combined : \A r \in Combined : m.score <= r.score
        /\ Len(sOut.val.combinedResults) < sLimit =>
               Cardinality(AllMatches) < sLimit

-----------------------------------------------------------------------------
(* Properties of loadData and of the queries over a missing corpus, checked *)
(* under EngineSpec (C14 under SearchSpec).                                 *)

\* The method a result came from, and the corpus that method loads.
CalledOp(out) == IF out.op = "threw" THEN out.by ELSE out.op

LookupOps == {"searchDocs", "searchGitHubExamples", "getOnyxFunctionExamples",
              "getOnyxStructExamples"}

CorpusOf(op) ==
    CASE op = "searchDocs" -> "docs"
      [] op = "searchGitHubExamples" -> "examplesByTopic"
      [] OTHER -> "githubPatterns"

\* The corpora the call that produced out asked loadData for.
NeededBy(out) ==
    IF CalledOp(out) \in LookupOps THEN {CorpusOf(CalledOp(out))}
    ELSE IF out.op = "searchAll" THEN Range(LoadsOfSources(out.val.sources))
    ELSE {}

\* The step is a call of a method of the engine.
IsCall == sCalls' = sCalls + 1

\* C11: a call of searchDocs, searchGitHubExamples, getOnyxFunctionExamples
\* or getOnyxStructExamples made while its corpus is neither cached nor in
\* storage returns an object with an error field and does not throw,
\* whatever its arguments.
C11_MissingCorpusIsError ==
    [][(/\ IsCall
        /\ CalledOp(sOut') \in LookupOps
        /\ ~Loaded(cache, store, CorpusOf(CalledOp(sOut'))).present)
       => (sOut'.op # "threw" /\ sOut'.val.error)]_vars

\* Two lookups in a row have found their corpus missing.
C11_Witness ==
    /\ sCalls = 2
    /\ sOut.op = "searchGitHubExamples"
    /\ sOut.val.error
    /\ failed = {"docs", "examplesByTopic"}

\* C12: once a load of a corpus has failed, no later step reads that
\* corpus's file again, and every later query for it returns the error
\* result.
C12_FailedLoadCached ==
    [][\A t \in failed :
          /\ reads'[t] = reads[t]
          /\ (IsCall /\ t \in NeededBy(sOut') /\ CalledOp(sOut') \in LookupOps)
                => (sOut'.op # "threw" /\ sOut'.val.error)]_vars

\* C13: a corpus file is read only by a query that needs the corpus and only
\* while the cache does not hold it; once cached, the corpus is never read
\* or replaced again, and searchDocs answers from the cached copy whatever
\* the file holds by then.
C13_LoadedOnceThenCached ==
    /\ [](\A t \in Types : reads[t] = 0 => ~cache[t].present)
    /\ [][\A t \in Types :
            /\ reads'[t] # reads[t] => (IsCall /\ t \in NeededBy(sOut') /\ ~cache[t].present)
            /\ cache[t].present => (reads'[t] = reads[t] /\ cache'[t] = cache[t])]_vars
    /\ [][(IsCall /\ sOut'.op = "searchDocs" /\ cache.docs.present)
            => sOut'.val = searchDocs(cache, EmptyCache, sQuery, sLimit)]_vars

\* The second of two searchDocs calls returned results from the cached
\* corpus although the file had been removed or rewritten in between.
C13_Witness ==
    /\ sCalls = 2
    /\ sOut.op = "searchDocs"
    /\ sStale
    /\ reads.docs = 1
    /\ sOut.val.results # <<>>

\* C14: in the result of searchAll every requested source whose corpus file
\* is missing has a slot of its own in resultsBySources, and that slot
\* carries the error marker.
SourceCorpus(src) == IF src = "docs" THEN "docs" ELSE "githubFiles"

C14_MissingSourceHasErrorSlot ==
    (sOut.op = "searchAll") =>
        \A src \in Range(sOut.val.sources) :
            ~store[SourceCorpus(src)].present =>
                \E k \in 1..Len(sOut.val.slotKeys) :
                    /\ sOut.val.slotKeys[k] = src
                    /\ sOut.val.resultsBySources[k].error

-----------------------------------------------------------------------------
(* Properties of the tools, checked under ToolSpec. *)

\* C15: every tool invocation ends in a normal response: whatever is thrown
\* inside a tool method, nothing leaves executeTool or the bridge's call
\* handler as a rejection.
C15_NoFailureEscapes == tOut.kind # "threw"

\* run_onyx_code without code: writeFile throws, the method's own catch
\* throws again on code.length, and executeTool answers with an error text.
C15_Witness ==
    /\ tOut.kind = "response"
    /\ tOut.tool = "run_onyx_code"
    /\ tOut.caughtBy = "executeTool"

\* C16: the MCP interface is read-only: no step of any tool call changes a
\* persisted corpus file.
C16_CorpusFilesUnchanged == [][store' = store]_vars

\* C17: a step of run_onyx_code creates, overwrites or deletes files only
\* inside the temp folder of the data directory: the corpus files and every
\* file outside that folder stay as they were.
C17_RunOnyxCodeStaysInTemp ==
    [][tOut'.tool = "run_onyx_code" =>
          /\ store' = store
          /\ \A q \in ScratchPaths : ~Inside(q, TempDir) => fs'[q] = fs[q]]_vars

\* The step is the timer of a run_onyx_code call going off while the child
\* process is still running.
TimerFiredOnRunningCode ==
    /\ inv.tool = "run_onyx_code"
    /\ inv.armed /\ ~inv'.armed
    /\ inv.child = "running" /\ inv'.child \notin {"closed", "errored"}

\* C18: a run_onyx_code call is never pending later than its timeout (10
\* seconds when none is given); when the timer goes off while the process
\* is still running the process is sent SIGTERM and the call answers with
\* success false, exit code -1 and the timeout marker.
C18_CompletesByTimeout ==
    /\ [](tOut.kind = "pending" /\ tOut.tool = "run_onyx_code"
            => clock <= Delay(inv.timeoutSeconds))
    /\ [][TimerFiredOnRunningCode =>
            /\ clock = Delay(inv.timeoutSeconds)
            /\ inv'.child = "signalled"
            /\ tOut'.kind = "response"
            /\ ~tOut'.success /\ tOut'.exitCode = -1 /\ tOut'.timedOut]_vars

\* A run with the default timeout that the timer ended.
C18_Witness ==
    /\ tOut.kind = "response" /\ tOut.tool = "run_onyx_code"
    /\ tOut.timedOut /\ tOut.exitCode = -1 /\ ~tOut.success
    /\ inv.timeoutSeconds = DefaultRunTimeout
    /\ inv.child = "signalled"

\* An event of a child whose call was already decided: the timer callback,
\* 'close' or 'error' finds "finished" set.
LateEvent == inv.finished /\ inv'.finished /\ inv' # inv

\* C37: a call of executeOnyxFile / executeOnyxCommand is answered by the
\* first of the timeout, the child's 'close' and its 'error', and an event
\* that comes after it leaves the answer and the files as they are.
C37_FirstEventDecides ==
    /\ [][(tOut.kind = "pending" /\ tOut'.kind # "pending")
             => (~inv.finished /\ inv'.finished)]_vars
    /\ [][LateEvent => (tOut' = tOut /\ fs' = fs /\ store' = store)]_vars

\* The timer decided a call and the 'close' of the killed child came later.
C37_Witness ==
    /\ tOut.kind = "response" /\ tOut.timedOut
    /\ inv.finished /\ inv.child = "closed"

-----------------------------------------------------------------------------
(* Properties of overlapping run_onyx_code calls, checked under OverlapSpec. *)

\* C38: run_onyx_code calls in flight at the same time do not interfere:
\* the file a call has written holds its code until its child has run, and
\* the child runs exactly the code of its call, also when the calls use the
\* default filename.
C38_NoInterference ==
    \A i \in Invocations :
        /\ rCalls[i].pc = "written" =>
               rTemp[TempPath(rCalls[i].filename)] = rCalls[i].code
        /\ rCalls[i].pc \in {"ran", "answered"} => rCalls[i].ran = rCalls[i].code

-----------------------------------------------------------------------------
(* Properties of the GitHub crawler's pure functions. *)

\* The forms of a repository reference the crawler documents: the full
\* https URL, bare or ending in .git or followed by /tree/..., the path
\* after the host name, and owner/repo alone.
SupportedForm(u) ==
    \/ /\ u.protocol = Https \o <<":">> \o Slashes2
       /\ u.host = GithubCom
       /\ u.suffix \in {<<>>, DotGit, TreeDir \o <<"m">>}
    \/ u.protocol = <<>> /\ u.suffix = <<>>

\* C19: every supported way of writing a repository is parsed to the same
\* owner and name, those of the repository written.
C19_SameOwnerAndName ==
    gUrl.parsed /\ SupportedForm(gUrl)
        => gRepos = << [owner |-> gUrl.owner, name |-> gUrl.name] >>

\* C20: the first rule that applies decides: README.md is a readme, and a
\* path ending in .onyx is source wherever it lies.
C20_FirstMatchPrecedence ==
    gType # "" =>
        /\ gPath = <<"R", "E", "A", "D", "M", "E", ".", "m", "d">> => gType = "readme"
        /\ EndsWith(gPath, <<".", "o", "n", "y", "x">>) => gType = "source"

\* examples/http_demo.onyx has been classified as source.
C20_Witness ==
    /\ gPath = <<"e", "x", "a", "m", "p", "l", "e", "s", "/", "h", "t", "t", "p", "_", "d", "e", "m", "o", ".", "o", "n", "y", "x">>
    /\ gType = "source"

====
